---- MODULE Spec2Model ----
(***************************************************************************)
(* A model of the query pipeline of KQii/dashboard-backend                 *)
(* (src/src/utils/apiFeatures.ts, class APIFeatures with `filteredData`):  *)
(* filter, sort, limitFields, paginate and getMetadata over an in-memory   *)
(* array of records, as chained by the getRulesProcessed handler.          *)
(*                                                                         *)
(* JavaScript text is a sequence of one-character strings, so that match,  *)
(* split, trim, includes, toLowerCase, Number, parseFloat and Date are     *)
(* computed on the characters.  A JavaScript value is a record             *)
(* [t, s, n]: t is the typeof tag ("string", "number", "boolean", "null",  *)
(* "undefined"), s the text of a string, n the integer of a number (or     *)
(* 0/1 of a boolean).  Numbers are integers or NaN.  A record is a plain   *)
(* object: a key it does not own is looked up on Object.prototype, whose   *)
(* methods are values with t = "function" and s the text String() gives    *)
(* for them.  The alphabet of the texts is the blank, ",", "-", ":", the   *)
(* brackets "(", ")", "[", "]", "{", "}", the digits and the letters; the  *)
(* texts hold no numeral with an exponent, not the word Infinity, no       *)
(* numeral beyond the machine integers and no UTC offset of 100000 hours   *)
(* or more.                                                                *)
(***************************************************************************)
EXTENDS Integers, Sequences, FiniteSets, TLC

\* ------------------------------------------------------------------ text

Digits == <<"0", "1", "2", "3", "4", "5", "6", "7", "8", "9">>

Lower == <<"a", "b", "c", "d", "e", "f", "g", "h", "i", "j", "k", "l", "m",
           "n", "o", "p", "q", "r", "s", "t", "u", "v", "w", "x", "y", "z">>

Upper == <<"A", "B", "C", "D", "E", "F", "G", "H", "I", "J", "K", "L", "M",
           "N", "O", "P", "Q", "R", "S", "T", "U", "V", "W", "X", "Y", "Z">>

\* The position of c in the sequence cs, 0 when it is not there.
IndexIn(c, cs) ==
  IF \E i \in 1..Len(cs) : cs[i] = c
    THEN CHOOSE i \in 1..Len(cs) : cs[i] = c
    ELSE 0

IsDigit(c) == IndexIn(c, Digits) > 0

DigitVal(c) == IndexIn(c, Digits) - 1

\* The UTF-16 code unit of a character of the model's alphabet.
CharCode(c) ==
  CASE c = " " -> 32
    [] c = "(" -> 40
    [] c = ")" -> 41
    [] c = "," -> 44
    [] c = "-" -> 45
    [] c = ":" -> 58
    [] IsDigit(c) -> 47 + IndexIn(c, Digits)
    [] IndexIn(c, Upper) > 0 -> 64 + IndexIn(c, Upper)
    [] c = "[" -> 91
    [] c = "]" -> 93
    [] IndexIn(c, Lower) > 0 -> 96 + IndexIn(c, Lower)
    [] c = "{" -> 123
    [] c = "}" -> 125

\* String.prototype.toLowerCase
LowerChar(c) == IF IndexIn(c, Upper) > 0 THEN Lower[IndexIn(c, Upper)] ELSE c

toLowerCase(s) == [i \in 1..Len(s) |-> LowerChar(s[i])]

\* String.prototype.startsWith
startsWith(s, p) == Len(p) <= Len(s) /\ SubSeq(s, 1, Len(p)) = p

\* String.prototype.substring(from), from counted from 0
substring(s, from) == SubSeq(s, from + 1, Len(s))

\* String.prototype.includes
includes(s, p) ==
  \E i \in 0..(Len(s) - Len(p)) : SubSeq(s, i + 1, i + Len(p)) = p

\* String.prototype.trim (the only white space of the alphabet is " ")
RECURSIVE trimStart(_)
trimStart(s) ==
  IF s # <<>> /\ Head(s) = " " THEN trimStart(Tail(s)) ELSE s

RECURSIVE trimEnd(_)
trimEnd(s) ==
  IF s # <<>> /\ s[Len(s)] = " " THEN trimEnd(SubSeq(s, 1, Len(s) - 1)) ELSE s

trim(s) == trimEnd(trimStart(s))

\* String.prototype.split(","): the pieces between the commas, empty pieces kept.
RECURSIVE split(_)
split(s) ==
  IF IndexIn(",", s) = 0
    THEN <<s>>
    ELSE <<SubSeq(s, 1, IndexIn(",", s) - 1)>>
           \o split(SubSeq(s, IndexIn(",", s) + 1, Len(s)))

\* Array.prototype.join(","), the text of an array of texts (String(array)).
RECURSIVE join(_)
join(ss) ==
  IF ss = <<>> THEN <<>>
  ELSE IF Len(ss) = 1 THEN ss[1]
  ELSE ss[1] \o <<",">> \o join(Tail(ss))

\* Text order of the < operator on two strings: by code units, a proper prefix first.
RECURSIVE TextLess(_, _)
TextLess(a, b) ==
  IF b = <<>> THEN FALSE
  ELSE IF a = <<>> THEN TRUE
  ELSE IF Head(a) # Head(b) THEN CharCode(Head(a)) < CharCode(Head(b))
  ELSE TextLess(Tail(a), Tail(b))

\* ---------------------------------------------------------------- values

\* JavaScript values of the model.
Str(s) == [t |-> "string", s |-> s, n |-> 0]

Num(n) == [t |-> "number", s |-> <<>>, n |-> n]

Bool(b) == [t |-> "boolean", s |-> <<>>, n |-> IF b THEN 1 ELSE 0]

Null == [t |-> "null", s |-> <<>>, n |-> 0]

Undefined == [t |-> "undefined", s |-> <<>>, n |-> 0]

\* A built-in function: two of them are the same function exactly when they
\* have the same name, and s is the text String() gives for it.
NativeFunction(name) ==
  [t |-> "function",
   s |-> <<"f", "u", "n", "c", "t", "i", "o", "n", " ">> \o name
           \o <<"(", ")", " ", "{", " ", "[", "n", "a", "t", "i", "v", "e", " ",
                "c", "o", "d", "e", "]", " ", "}">>,
   n |-> 0]

\* ToPrimitive(value): a function is converted to its text.
ToPrimitive(v) == IF v.t = "function" THEN Str(v.s) ELSE v

\* A number that may be NaN.
NaN == [nan |-> TRUE, n |-> 0]

Finite(n) == [nan |-> FALSE, n |-> n]

\* The integer written by a sequence of decimal digits.
RECURSIVE DigitsValue(_)
DigitsValue(ds) ==
  IF ds = <<>> THEN 0
  ELSE 10 * DigitsValue(SubSeq(ds, 1, Len(ds) - 1)) + DigitVal(ds[Len(ds)])

AllDigits(s) == s # <<>> /\ \A i \in 1..Len(s) : IsDigit(s[i])

\* The longest prefix of s made of digits.
RECURSIVE DigitPrefix(_)
DigitPrefix(s) ==
  IF s # <<>> /\ IsDigit(Head(s)) THEN <<Head(s)>> \o DigitPrefix(Tail(s)) ELSE <<>>

\* The value of a digit of a binary, octal or hexadecimal numeral, 99 for
\* any other character.
RadixDigit(c) ==
  IF IsDigit(c) THEN DigitVal(c)
  ELSE IF IndexIn(c, SubSeq(Lower, 1, 6)) > 0 THEN 9 + IndexIn(c, SubSeq(Lower, 1, 6))
  ELSE IF IndexIn(c, SubSeq(Upper, 1, 6)) > 0 THEN 9 + IndexIn(c, SubSeq(Upper, 1, 6))
  ELSE 99

\* The radix a prefix 0b, 0o or 0x (in either case) announces, 0 for none.
RadixOf(t) ==
  IF Len(t) < 2 \/ t[1] # "0" THEN 0
  ELSE IF t[2] \in {"b", "B"} THEN 2
  ELSE IF t[2] \in {"o", "O"} THEN 8
  ELSE IF t[2] \in {"x", "X"} THEN 16
  ELSE 0

AllRadixDigits(ds, radix) ==
  ds # <<>> /\ \A i \in 1..Len(ds) : RadixDigit(ds[i]) < radix

RECURSIVE RadixValue(_, _)
RadixValue(ds, radix) ==
  IF ds = <<>> THEN 0
  ELSE radix * RadixValue(SubSeq(ds, 1, Len(ds) - 1), radix) + RadixDigit(ds[Len(ds)])

\* Number(text): white space trimmed, "" is 0, an optionally signed decimal
\* numeral is its value, an unsigned numeral with the prefix 0b, 0o or 0x is
\* its value in that radix, anything else is NaN.
NumberOfText(s) ==
  LET t == trim(s) IN
    IF t = <<>> THEN Finite(0)
    ELSE IF AllDigits(t) THEN Finite(DigitsValue(t))
    ELSE IF Head(t) = "-" /\ AllDigits(Tail(t)) THEN Finite(0 - DigitsValue(Tail(t)))
    ELSE IF RadixOf(t) # 0 /\ AllRadixDigits(SubSeq(t, 3, Len(t)), RadixOf(t))
      THEN Finite(RadixValue(SubSeq(t, 3, Len(t)), RadixOf(t)))
    ELSE NaN

\* parseFloat(text): leading white space skipped, then the longest numeral
\* prefix; NaN when there is none.
parseFloat(s) ==
  LET t == trimStart(s)
      neg == t # <<>> /\ Head(t) = "-"
      ds == DigitPrefix(IF neg THEN Tail(t) ELSE t)
  IN IF ds = <<>> THEN NaN
     ELSE Finite(IF neg THEN 0 - DigitsValue(ds) ELSE DigitsValue(ds))

\* ToNumber(value)
ToNumber(v) ==
  CASE v.t = "string" -> NumberOfText(v.s)
    [] v.t = "number" -> Finite(v.n)
    [] v.t = "boolean" -> Finite(v.n)
    [] v.t = "null" -> Finite(0)
    [] v.t = "undefined" -> NaN
    [] v.t = "function" -> NumberOfText(v.s)

\* a < b, a > b, a <= b, a >= b on values (the abstract relational comparison):
\* two primitives that are strings compare as text, anything else as numbers,
\* and NaN compares false.
JsLess(a, b) ==
  IF ToPrimitive(a).t = "string" /\ ToPrimitive(b).t = "string"
    THEN TextLess(ToPrimitive(a).s, ToPrimitive(b).s)
  ELSE ~ToNumber(a).nan /\ ~ToNumber(b).nan /\ ToNumber(a).n < ToNumber(b).n

JsLessEq(a, b) ==
  IF ToPrimitive(a).t = "string" /\ ToPrimitive(b).t = "string"
    THEN ~TextLess(ToPrimitive(b).s, ToPrimitive(a).s)
  ELSE ~ToNumber(a).nan /\ ~ToNumber(b).nan /\ ToNumber(a).n <= ToNumber(b).n

\* a === b: two values of one type with the same content, two functions
\* when they are the same function.
StrictEq(a, b) == a = b

\* a == b: a function is compared by its text with a string, and as a
\* number (NaN) with a number or a boolean.
LooseEq(a, b) ==
  IF a.t = b.t THEN a = b
  ELSE IF a.t \in {"null", "undefined"} \/ b.t \in {"null", "undefined"}
    THEN a.t \in {"null", "undefined"} /\ b.t \in {"null", "undefined"}
  ELSE IF ToPrimitive(a).t = "string" /\ ToPrimitive(b).t = "string"
    THEN ToPrimitive(a).s = ToPrimitive(b).s
  ELSE ~ToNumber(a).nan /\ ~ToNumber(b).nan /\ ToNumber(a).n = ToNumber(b).n

\* ----------------------------------------------------------------- dates

\* A time value: NaN (Invalid Date), or day (days since 1970-01-01) and ms
\* (milliseconds within the day), so that instants stay within machine
\* integers.
InvalidDate == [nan |-> TRUE, day |-> 0, ms |-> 0]

TimeValue(day, ms) == [nan |-> FALSE, day |-> day, ms |-> ms]

MsPerDay == 86400000

\* Days from 1970-01-01 to the given civil date (MakeDay); a day past the end
\* of the month runs on into the next.
DaysFromCivil(y, m, d) ==
  LET yy == IF m <= 2 THEN y - 1 ELSE y
      era == yy \div 400
      yoe == yy - era * 400
      mp == IF m > 2 THEN m - 3 ELSE m + 9
      doy == (153 * mp + 2) \div 5 + d - 1
      doe == yoe * 365 + yoe \div 4 - yoe \div 100 + doy
  IN era * 146097 + doe - 719468

\* kNone of the date parser: a slot that has not been set.
None == 0 - 1

\* InputReader::IsAsciiAlphaOrAbove: the character is "A" or comes after it.
IsAsciiAlphaOrAbove(c) == CharCode(c) >= CharCode("A")

\* The longest prefix of s whose characters pass the test IsAsciiAlphaOrAbove
\* / is " ".
RECURSIVE WordPrefix(_)
WordPrefix(s) ==
  IF s # <<>> /\ IsAsciiAlphaOrAbove(Head(s))
    THEN <<Head(s)>> \o WordPrefix(Tail(s))
    ELSE <<>>

RECURSIVE BlankPrefix(_)
BlankPrefix(s) ==
  IF s # <<>> /\ Head(s) = " " THEN <<Head(s)>> \o BlankPrefix(Tail(s)) ELSE <<>>

\* InputReader::SkipParentheses: the length of the text from a "(" to the
\* ")" that closes it, or to the end of the text.
RECURSIVE ParenthesesLength(_, _)
ParenthesesLength(s, balance) ==
  IF s = <<>> THEN 0
  ELSE IF Head(s) = "(" THEN 1 + ParenthesesLength(Tail(s), balance + 1)
  ELSE IF Head(s) # ")" THEN 1 + ParenthesesLength(Tail(s), balance)
  ELSE IF balance > 1 THEN 1 + ParenthesesLength(Tail(s), balance - 1)
  ELSE 1

RECURSIVE SkipZeros(_)
SkipZeros(ds) == IF ds # <<>> /\ Head(ds) = "0" THEN SkipZeros(Tail(ds)) ELSE ds

\* InputReader::ReadUnsignedNumeral: leading zeros are skipped and of the
\* digits after them the first nine count.
ReadUnsignedNumeral(ds) ==
  LET sig == SkipZeros(ds) IN
    DigitsValue(SubSeq(sig, 1, IF Len(sig) < 9 THEN Len(sig) ELSE 9))

\* KeywordTable: the month names, by their first three letters.
MonthNames ==
  << <<"j", "a", "n">>, <<"f", "e", "b">>, <<"m", "a", "r">>, <<"a", "p", "r">>,
     <<"m", "a", "y">>, <<"j", "u", "n">>, <<"j", "u", "l">>, <<"a", "u", "g">>,
     <<"s", "e", "p">>, <<"o", "c", "t">>, <<"n", "o", "v">>, <<"d", "e", "c">> >>

\* KeywordTable: the time zone names and their offsets in hours.
ZoneNames ==
  << <<"u", "t">>, <<"u", "t", "c">>, <<"z">>, <<"g", "m", "t">>,
     <<"c", "d", "t">>, <<"c", "s", "t">>, <<"e", "d", "t">>, <<"e", "s", "t">>,
     <<"m", "d", "t">>, <<"m", "s", "t">>, <<"p", "d", "t">>, <<"p", "s", "t">> >>

ZoneHours == <<0, 0, 0, 0, 0 - 5, 0 - 6, 0 - 4, 0 - 5, 0 - 6, 0 - 7, 0 - 7, 0 - 8>>

\* A token of the date text: k is "number", ":", "-", ")", a keyword type
\* ("month", "ampm", "zone", "tsep", and "word" for a word the table does
\* not hold), "blank", "unknown" or "end"; n is the number or the keyword's
\* value, len the length in characters.
DateToken(k, n, len) == [k |-> k, n |-> n, len |-> len]

\* KeywordTable::Lookup on a word: only a month name may be longer than its
\* entry of the table.
Keyword(w) ==
  LET low == toLowerCase(w)
      pre == SubSeq(low, 1, IF Len(low) < 3 THEN Len(low) ELSE 3)
  IN IF IndexIn(pre, MonthNames) > 0 THEN DateToken("month", IndexIn(pre, MonthNames), Len(w))
     ELSE IF low = <<"a", "m">> THEN DateToken("ampm", 0, Len(w))
     ELSE IF low = <<"p", "m">> THEN DateToken("ampm", 12, Len(w))
     ELSE IF IndexIn(low, ZoneNames) > 0
       THEN DateToken("zone", ZoneHours[IndexIn(low, ZoneNames)], Len(w))
     ELSE IF low = <<"t">> THEN DateToken("tsep", 0, Len(w))
     ELSE DateToken("word", 0, Len(w))

\* DateStringTokenizer::Scan, until the end of the text.
RECURSIVE Scan(_)
Scan(s) ==
  IF s = <<>> THEN <<>>
  ELSE IF IsDigit(Head(s)) THEN
    LET ds == DigitPrefix(s) IN
      <<DateToken("number", ReadUnsignedNumeral(ds), Len(ds))>> \o Scan(SubSeq(s, Len(ds) + 1, Len(s)))
  ELSE IF Head(s) \in {":", "-", ")"} THEN <<DateToken(Head(s), 0, 1)>> \o Scan(Tail(s))
  ELSE IF IsAsciiAlphaOrAbove(Head(s)) THEN
    LET w == WordPrefix(s) IN <<Keyword(w)>> \o Scan(SubSeq(s, Len(w) + 1, Len(s)))
  ELSE IF Head(s) = " " THEN
    LET b == BlankPrefix(s) IN
      <<DateToken("blank", 0, Len(b))>> \o Scan(SubSeq(s, Len(b) + 1, Len(s)))
  ELSE IF Head(s) = "(" THEN
    <<DateToken("unknown", 0, ParenthesesLength(s, 0))>>
      \o Scan(SubSeq(s, ParenthesesLength(s, 0) + 1, Len(s)))
  ELSE <<DateToken("unknown", 0, 1)>> \o Scan(Tail(s))

\* The token at position i, EndOfInput past the last.
Tok(T, i) == IF i <= Len(T) THEN T[i] ELSE DateToken("end", 0, 0)

IsFixedNumber(t, len) == t.k = "number" /\ t.len = len

IsKeywordZ(t) == t.k = "zone" /\ t.len = 1

\* The composers of the parser: the numbers of the day, the named month, the
\* numbers of the time, the hour offset of AM/PM, sign, hour and minute of
\* the time zone, and whether a number has been read.
EmptyDate ==
  [ok |-> TRUE, day |-> <<>>, named |-> None, iso |-> FALSE, time |-> <<>>,
   hoff |-> None, tzs |-> 0, tzh |-> None, tzm |-> None, read |-> FALSE]

\* The parse fails: Invalid Date.
Failed == [EmptyDate EXCEPT !.ok = FALSE]

\* TimeZoneComposer::Set
SetZone(D, hours) ==
  [D EXCEPT !.tzs = IF hours < 0 THEN 0 - 1 ELSE 1,
            !.tzh = IF hours < 0 THEN 0 - hours ELSE hours,
            !.tzm = 0]

\* TimeComposer::IsExpecting
TimeIsExpecting(D, n) ==
  \/ Len(D.time) = 1 /\ n \in 0..59
  \/ Len(D.time) = 2 /\ n \in 0..59
  \/ Len(D.time) = 3 /\ n \in 0..999

\* TimeZoneComposer::IsExpecting
ZoneIsExpecting(D, n) == D.tzh # None /\ D.tzm = None /\ n \in 0..59

\* TimeComposer::AddFinal
AddFinal(time, n) == SubSeq(Append(time, n) \o <<0, 0, 0>>, 1, 4)

\* The legacy parser (the loop of DateParser::Parse), from token i on.
RECURSIVE Legacy(_, _, _)
Legacy(T, i, D) ==
  LET t == Tok(T, i)
      t1 == Tok(T, i + 1)
      t2 == Tok(T, i + 2)
      R == [D EXCEPT !.read = TRUE]
  IN
  IF t.k = "end" THEN D
  ELSE IF t.k = "number" THEN
    IF t1.k = ":" THEN
      IF t2.k = ":" THEN
        IF D.time # <<>> THEN Failed
        ELSE Legacy(T, i + 3, [R EXCEPT !.time = <<t.n, 0>>])
      ELSE IF Len(D.time) >= 4 THEN Failed
      ELSE Legacy(T, i + 2, [R EXCEPT !.time = Append(D.time, t.n)])
    ELSE IF ZoneIsExpecting(D, t.n) THEN Legacy(T, i + 1, [R EXCEPT !.tzm = t.n])
    ELSE IF TimeIsExpecting(D, t.n) THEN
      IF t1.k \in {"end", "blank", "-"} \/ IsKeywordZ(t1)
        THEN Legacy(T, i + 1, [R EXCEPT !.time = AddFinal(D.time, t.n)])
        ELSE Failed
    ELSE IF Len(D.day) >= 3 THEN Failed
    ELSE Legacy(T, IF t1.k = "-" THEN i + 2 ELSE i + 1,
                [R EXCEPT !.day = Append(D.day, t.n)])
  ELSE IF t.k \in {"month", "ampm", "zone", "tsep", "word"} THEN
    IF t.k = "ampm" /\ D.time # <<>> THEN Legacy(T, i + 1, [D EXCEPT !.hoff = t.n])
    ELSE IF t.k = "month" THEN
      Legacy(T, IF t1.k = "-" THEN i + 2 ELSE i + 1, [D EXCEPT !.named = t.n])
    ELSE IF t.k = "zone" /\ D.read THEN Legacy(T, i + 1, SetZone(D, t.n))
    ELSE IF D.read \/ t1.k = "number" THEN Failed
    ELSE Legacy(T, i + 1, D)
  ELSE IF t.k = "-" /\ ((D.tzh = 0 /\ D.tzm = 0) \/ D.time # <<>>) THEN
    LET some == t1.k = "number"
        n == IF some THEN t1.n ELSE 0
        len == IF some THEN t1.len ELSE 0
        j == IF some THEN i + 2 ELSE i + 1
        S == [R EXCEPT !.tzs = 0 - 1]
    IN IF Tok(T, j).k = ":" THEN Legacy(T, j, [S EXCEPT !.tzh = n, !.tzm = None])
       ELSE IF len \in {1, 2} THEN Legacy(T, j, [S EXCEPT !.tzh = n, !.tzm = 0])
       ELSE IF len \in {3, 4}
         THEN Legacy(T, j, [S EXCEPT !.tzh = n \div 100, !.tzm = n % 100])
       ELSE Failed
  ELSE IF t.k \in {"-", ")"} /\ D.read THEN Failed
  ELSE Legacy(T, i + 1, D)

\* The state of ParseES5DateTime: the composers, the token it stands at,
\* and whether it is still reading the ES5 form. When it has stopped, p is
\* the token the legacy parser is to go on from (0 when nothing is left for
\* it: the text was in the ES5 form to its end, or is no date).
Es5Go(D, p) == [D |-> D, p |-> p, go |-> TRUE]

Es5Stop(D, next) == [D |-> D, p |-> next, go |-> FALSE]

\* ParseES5DateTime, the year: four digits, or six after a sign.
Es5Year(T) ==
  IF Tok(T, 1).k = "-" THEN
    IF ~IsFixedNumber(Tok(T, 2), 6) THEN Es5Stop(EmptyDate, 1)
    ELSE IF Tok(T, 2).n = 0 THEN Es5Stop(EmptyDate, 3)
    ELSE Es5Go([EmptyDate EXCEPT !.day = <<0 - Tok(T, 2).n>>], 3)
  ELSE IF IsFixedNumber(Tok(T, 1), 4)
    THEN Es5Go([EmptyDate EXCEPT !.day = <<Tok(T, 1).n>>], 2)
  ELSE Es5Stop(EmptyDate, 1)

\* ParseES5DateTime, the month: -MM.
Es5Month(T, r) ==
  IF ~r.go \/ Tok(T, r.p).k # "-" THEN r
  ELSE IF ~(IsFixedNumber(Tok(T, r.p + 1), 2) /\ Tok(T, r.p + 1).n \in 1..12)
    THEN Es5Stop(r.D, r.p + 1)
  ELSE Es5Go([r.D EXCEPT !.day = Append(r.D.day, Tok(T, r.p + 1).n)], r.p + 2)

\* ParseES5DateTime, the day: -DD, after a month only.
Es5Day(T, r) ==
  IF ~r.go \/ Len(r.D.day) # 2 \/ Tok(T, r.p).k # "-" THEN r
  ELSE IF ~(IsFixedNumber(Tok(T, r.p + 1), 2) /\ Tok(T, r.p + 1).n \in 1..31)
    THEN Es5Stop(r.D, r.p + 1)
  ELSE Es5Go([r.D EXCEPT !.day = Append(r.D.day, Tok(T, r.p + 1).n)], r.p + 2)

\* ParseES5DateTime, hour and minute: T HH:mm, 24:00 allowed. A text that
\* goes on with something else than T is left to the legacy parser.
Es5HourMinute(T, r) ==
  IF ~r.go \/ Tok(T, r.p).k = "end" THEN r
  ELSE IF Tok(T, r.p).k # "tsep" THEN Es5Stop(r.D, r.p)
  ELSE IF ~(IsFixedNumber(Tok(T, r.p + 1), 2) /\ Tok(T, r.p + 1).n \in 0..24)
    THEN Es5Stop(Failed, 0)
  ELSE IF Tok(T, r.p + 2).k # ":" THEN Es5Stop(Failed, 0)
  ELSE IF ~(/\ IsFixedNumber(Tok(T, r.p + 3), 2)
            /\ Tok(T, r.p + 3).n \in 0..59
            /\ (Tok(T, r.p + 1).n = 24 => Tok(T, r.p + 3).n = 0))
    THEN Es5Stop(Failed, 0)
  ELSE Es5Go([r.D EXCEPT !.time = <<Tok(T, r.p + 1).n, Tok(T, r.p + 3).n>>], r.p + 4)

\* ParseES5DateTime, the seconds: :ss, after hour and minute only.
Es5Second(T, r) ==
  IF ~r.go \/ Len(r.D.time) # 2 \/ Tok(T, r.p).k # ":" THEN r
  ELSE IF ~(/\ IsFixedNumber(Tok(T, r.p + 1), 2)
            /\ Tok(T, r.p + 1).n \in 0..59
            /\ (r.D.time[1] = 24 => Tok(T, r.p + 1).n = 0))
    THEN Es5Stop(Failed, 0)
  ELSE Es5Go([r.D EXCEPT !.time = Append(r.D.time, Tok(T, r.p + 1).n)], r.p + 2)

\* ParseES5DateTime, the time zone: Z, -hhmm or -hh:mm, after a time only.
Es5Zone(T, r) ==
  IF ~r.go \/ r.D.time = <<>> THEN r
  ELSE IF IsKeywordZ(Tok(T, r.p)) THEN Es5Go(SetZone(r.D, 0), r.p + 1)
  ELSE IF Tok(T, r.p).k # "-" THEN r
  ELSE IF IsFixedNumber(Tok(T, r.p + 1), 4) THEN
    IF (Tok(T, r.p + 1).n \div 100) \in 0..23 /\ (Tok(T, r.p + 1).n % 100) \in 0..59
      THEN Es5Go([r.D EXCEPT !.tzs = 0 - 1, !.tzh = Tok(T, r.p + 1).n \div 100,
                             !.tzm = Tok(T, r.p + 1).n % 100], r.p + 2)
      ELSE Es5Stop(Failed, 0)
  ELSE IF /\ IsFixedNumber(Tok(T, r.p + 1), 2) /\ Tok(T, r.p + 1).n \in 0..23
          /\ Tok(T, r.p + 2).k = ":"
          /\ IsFixedNumber(Tok(T, r.p + 3), 2) /\ Tok(T, r.p + 3).n \in 0..59
    THEN Es5Go([r.D EXCEPT !.tzs = 0 - 1, !.tzh = Tok(T, r.p + 1).n,
                           !.tzm = Tok(T, r.p + 3).n], r.p + 4)
  ELSE Es5Stop(Failed, 0)

\* ParseES5DateTime, the end: the ES5 form went through when the text ends
\* here; a date without a time is in UTC.
Es5End(T, r) ==
  IF ~r.go THEN r
  ELSE IF Tok(T, r.p).k # "end" THEN Es5Stop(Failed, 0)
  ELSE IF r.D.tzh = None /\ r.D.time = <<>>
    THEN Es5Stop([SetZone(r.D, 0) EXCEPT !.iso = TRUE], 0)
  ELSE Es5Stop([r.D EXCEPT !.iso = TRUE], 0)

\* ParseES5DateTime: year, month, day, time and time zone in turn.
ParseES5DateTime(T) ==
  Es5End(T, Es5Zone(T, Es5Second(T, Es5HourMinute(T, Es5Day(T, Es5Month(T, Es5Year(T)))))))

\* The ES5 form did not go through: the legacy parser takes what is left,
\* and keeps the numbers of the day read so far.
Leftover(T, es5) ==
  IF es5.p = 0 THEN es5.D
  ELSE Legacy(T, es5.p, [es5.D EXCEPT !.read = es5.D.day # <<>>])

\* DateParser::Parse: the ES5 form first, the legacy parser for what does
\* not fit it.
Parse(T) == Leftover(T, ParseES5DateTime(T))

\* DayComposer::Write: year, month and day from the numbers read. Missing
\* numbers are 1; without a named month three numbers are year-month-day
\* when the first is no day of a month and month-day-year otherwise.
DayWrite(D) ==
  LET c == SubSeq(D.day \o <<1, 1, 1>>, 1, 3)
      isDay(x) == x \in 1..31
      ymd == IF D.named = None
               THEN IF D.iso \/ ~isDay(c[1]) THEN c ELSE <<c[3], c[1], c[2]>>
               ELSE IF ~isDay(c[1]) THEN <<c[1], D.named, c[2]>>
                    ELSE <<c[2], D.named, c[1]>>
      year == IF D.iso THEN ymd[1]
              ELSE IF ymd[1] \in 0..49 THEN ymd[1] + 2000
              ELSE IF ymd[1] \in 50..99 THEN ymd[1] + 1900
              ELSE ymd[1]
  IN [ok |-> D.day # <<>> /\ ymd[2] \in 1..12 /\ isDay(ymd[3]),
      year |-> year, month |-> ymd[2], day |-> ymd[3]]

\* TimeComposer::Write: missing numbers are 0; with AM or PM the hour is
\* taken modulo 12 and shifted; 24:00:00 is allowed. The time of day is
\* written only when hour, minute, second and millisecond are in range.
TimeWrite(D) ==
  LET c == SubSeq(D.time \o <<0, 0, 0, 0>>, 1, 4)
      hour == IF D.hoff = None THEN c[1] ELSE (c[1] % 12) + D.hoff
      ok == /\ D.hoff # None => c[1] \in 0..12
            /\ \/ hour \in 0..23 /\ c[2] \in 0..59 /\ c[3] \in 0..59 /\ c[4] \in 0..999
               \/ hour = 24 /\ c[2] = 0 /\ c[3] = 0 /\ c[4] = 0
  IN [ok |-> ok,
      seconds |-> IF ok THEN (hour * 60 + c[2]) * 60 + c[3] ELSE 0,
      ms |-> IF ok THEN c[4] ELSE 0]

\* TimeZoneComposer::Write: the offset from UTC in seconds. Without a time
\* zone the time is local time, and the local time zone is taken to be UTC.
ZoneWrite(D) ==
  IF D.tzs = 0 THEN 0
  ELSE D.tzs * ((IF D.tzh = None THEN 0 ELSE D.tzh) * 3600
                  + (IF D.tzm = None THEN 0 ELSE D.tzm) * 60)

\* MakeDay, MakeTime, MakeDate and TimeClip: the instant of a day, a time
\* and an offset from UTC; a year beyond 300 000 or an instant more than
\* 100 000 000 days from the epoch is no date.
MakeDate(day, time, offset) ==
  LET seconds == time.seconds - offset
      days == DaysFromCivil(day.year, day.month, day.day) + (seconds \div 86400)
      ms == (seconds % 86400) * 1000 + time.ms
  IN IF ~day.ok \/ ~time.ok THEN InvalidDate
     ELSE IF day.year < 0 - 300000 \/ day.year > 300000 THEN InvalidDate
     ELSE IF days < 0 - 100000000 \/ days > 100000000 THEN InvalidDate
     ELSE IF days = 100000000 /\ ms > 0 THEN InvalidDate
     ELSE TimeValue(days, ms)

\* The instant of what the parser has read.
DateOfParsed(D) ==
  IF ~D.ok THEN InvalidDate ELSE MakeDate(DayWrite(D), TimeWrite(D), ZoneWrite(D))

\* new Date(text) on V8: the text is scanned and parsed, then day and time
\* are put together.
DateOfText(s) == DateOfParsed(Parse(Scan(s)))

\* new Date(value): a primitive that is a string is parsed, any other is
\* converted to a number of milliseconds.
DateOf(v) ==
  IF ToPrimitive(v).t = "string" THEN DateOfText(ToPrimitive(v).s)
  ELSE IF ToNumber(v).nan THEN InvalidDate
  ELSE TimeValue(ToNumber(v).n \div MsPerDay, ToNumber(v).n % MsPerDay)

\* getTime() of a before getTime() of b
TimeLess(a, b) == a.day < b.day \/ (a.day = b.day /\ a.ms < b.ms)

\* --------------------------------------------------- records and QuerySpec

kConstructor == <<"c", "o", "n", "s", "t", "r", "u", "c", "t", "o", "r">>

kHasOwnProperty ==
  <<"h", "a", "s", "O", "w", "n", "P", "r", "o", "p", "e", "r", "t", "y">>

kIsPrototypeOf == <<"i", "s", "P", "r", "o", "t", "o", "t", "y", "p", "e", "O", "f">>

kPropertyIsEnumerable ==
  <<"p", "r", "o", "p", "e", "r", "t", "y", "I", "s", "E", "n", "u", "m", "e", "r",
    "a", "b", "l", "e">>

kToLocaleString ==
  <<"t", "o", "L", "o", "c", "a", "l", "e", "S", "t", "r", "i", "n", "g">>

kToString == <<"t", "o", "S", "t", "r", "i", "n", "g">>

kValueOf == <<"v", "a", "l", "u", "e", "O", "f">>

\* Object.prototype, which every record inherits from: the keys spelled in
\* the alphabet of the texts, each with its built-in function.
ObjectPrototype ==
  (kConstructor :> NativeFunction(<<"O", "b", "j", "e", "c", "t">>))
    @@ [k \in {kHasOwnProperty, kIsPrototypeOf, kPropertyIsEnumerable,
               kToLocaleString, kToString, kValueOf} |-> NativeFunction(k)]

\* A record is a function from its own keys (texts) to values.  item[key]:
\* the value of an own key, else what Object.prototype holds for the key,
\* else undefined.
Get(item, key) ==
  IF key \in DOMAIN item THEN item[key]
  ELSE IF key \in DOMAIN ObjectPrototype THEN ObjectPrototype[key]
  ELSE Undefined

\* The value the record itself holds for the key: undefined when the key is
\* not one of its own.
OwnValue(item, key) == IF key \in DOMAIN item THEN item[key] ELSE Undefined

\* A QuerySpec is a function from its keys (texts) to query values; a query
\* value is a single text, or an array of texts (the key given more than
\* once).
One(s) == [isArray |-> FALSE, vals |-> <<s>>]

Many(ss) == [isArray |-> TRUE, vals |-> ss]

\* String(value) of a query value: an array joins its elements with ",".
TextOf(qv) == IF qv.isArray THEN join(qv.vals) ELSE qv.vals[1]

\* Truthiness of queryString[key]: absent (undefined) and "" are falsy, any
\* array is truthy.
Truthy(q, key) ==
  key \in DOMAIN q /\ (q[key].isArray \/ q[key].vals[1] # <<>>)

\* Number(queryString[key]); Number(undefined) is NaN.
NumberOfParam(q, key) ==
  IF key \in DOMAIN q THEN NumberOfText(TextOf(q[key])) ELSE NaN

\* Number(queryString[key]) || dflt
NumberOr(q, key, dflt) ==
  IF NumberOfParam(q, key).nan \/ NumberOfParam(q, key).n = 0
    THEN dflt
    ELSE NumberOfParam(q, key).n

kPage == <<"p", "a", "g", "e">>

kSort == <<"s", "o", "r", "t">>

kLimit == <<"l", "i", "m", "i", "t">>

kFields == <<"f", "i", "e", "l", "d", "s">>

\* A mutant of excludedFields: sort is not among them.
excludedFieldsWithoutSort == {kPage, kLimit, kFields}

excludedFields == {kPage, kSort, kLimit, kFields}

\* Object.keys(queryObj) after the excluded fields are deleted.
FilterKeys(q) == DOMAIN q \ excludedFields

\* ------------------------------------------------------ evaluateCondition

pGte == <<"g", "t", "e", ":">>

pGt == <<"g", "t", ":">>

pLte == <<"l", "t", "e", ":">>

pLt == <<"l", "t", ":">>

\* value.match(/^<prefix>(.+)$/) is not null
Matches(value, prefix) == startsWith(value, prefix) /\ Len(value) > Len(prefix)

\* The range operator of a raw value, "" when it has none.
OperatorOf(value) ==
  CASE Matches(value, pGte) -> "gte"
    [] Matches(value, pGt) -> "gt"
    [] Matches(value, pLte) -> "lte"
    [] Matches(value, pLt) -> "lt"
    [] OTHER -> ""

\* The captured group [1] of the match.
OperandOf(value) ==
  CASE Matches(value, pGte) -> substring(value, Len(pGte))
    [] Matches(value, pGt) -> substring(value, Len(pGt))
    [] Matches(value, pLte) -> substring(value, Len(pLte))
    [] Matches(value, pLt) -> substring(value, Len(pLt))
    [] OTHER -> <<>>

\* Both the operand and the field value are valid dates.
BothDates(itemValue, value) ==
  ~DateOfText(OperandOf(value)).nan /\ ~DateOf(itemValue).nan

\* itemDate.getTime() <op> operatorDate.getTime()
CompareDates(op, itemDate, operatorDate) ==
  CASE op = "gte" -> ~TimeLess(itemDate, operatorDate)
    [] op = "gt" -> TimeLess(operatorDate, itemDate)
    [] op = "lte" -> ~TimeLess(operatorDate, itemDate)
    [] op = "lt" -> TimeLess(itemDate, operatorDate)

\* itemValue <op> numValue
CompareNumbers(op, itemValue, numValue) ==
  CASE op = "gte" -> JsLessEq(Num(numValue), itemValue)
    [] op = "gt" -> JsLess(Num(numValue), itemValue)
    [] op = "lte" -> JsLessEq(itemValue, Num(numValue))
    [] op = "lt" -> JsLess(itemValue, Num(numValue))

\* The range branch returns a result: the raw value has an operator, and
\* either both sides are dates or the operand is a number.
RangeDecides(itemValue, value) ==
  /\ OperatorOf(value) # ""
  /\ \/ BothDates(itemValue, value)
     \/ ~parseFloat(OperandOf(value)).nan

\* A mutant of RangeResult: an operand that is a number is compared as a
\* number, whether or not both sides are dates.
RangeResultNumberFirst(itemValue, value) ==
  IF ~parseFloat(OperandOf(value)).nan
    THEN CompareNumbers(OperatorOf(value), itemValue,
                        parseFloat(OperandOf(value)).n)
    ELSE CompareDates(OperatorOf(value), DateOf(itemValue),
                      DateOfText(OperandOf(value)))

RangeResult(itemValue, value) ==
  IF BothDates(itemValue, value)
    THEN CompareDates(OperatorOf(value), DateOf(itemValue),
                      DateOfText(OperandOf(value)))
    ELSE CompareNumbers(OperatorOf(value), itemValue,
                        parseFloat(OperandOf(value)).n)

\* A mutant of OrListResult: only the first sub-value is tried.
OrListResultFirstOnly(itemValue, value) ==
  IF itemValue.t = "string"
    THEN includes(toLowerCase(itemValue.s), toLowerCase(trim(split(value)[1])))
    ELSE LooseEq(itemValue, Str(trim(split(value)[1])))

\* values.some(...) of the comma-separated branch
OrListResult(itemValue, value) ==
  LET values == [i \in 1..Len(split(value)) |-> trim(split(value)[i])] IN
    IF itemValue.t = "string"
      THEN \E i \in 1..Len(values) :
             includes(toLowerCase(itemValue.s), toLowerCase(values[i]))
      ELSE \E i \in 1..Len(values) : LooseEq(itemValue, Str(values[i]))

\* A mutant of evaluateCondition: the last test is strict equality alone.
evaluateConditionStrict(itemValue, value) ==
  IF RangeDecides(itemValue, value) THEN RangeResult(itemValue, value)
  ELSE IF includes(value, <<",">>) THEN OrListResult(itemValue, value)
  ELSE IF itemValue.t = "string"
    THEN includes(toLowerCase(itemValue.s), toLowerCase(value))
  ELSE StrictEq(itemValue, Str(value))

\* evaluateCondition(itemValue, value) for a text value
evaluateCondition(itemValue, value) ==
  IF RangeDecides(itemValue, value) THEN RangeResult(itemValue, value)
  ELSE IF includes(value, <<",">>) THEN OrListResult(itemValue, value)
  ELSE IF itemValue.t = "string"
    THEN includes(toLowerCase(itemValue.s), toLowerCase(value))
  ELSE StrictEq(itemValue, Str(value)) \/ LooseEq(itemValue, Str(value))

\* ----------------------------------------------------------------- filter

\* A mutant of KeyPasses: one value of an array of values is enough.
KeyPassesAnyValue(item, q, key) ==
  IF Get(item, key).t \in {"null", "undefined"} THEN FALSE
  ELSE \E i \in 1..Len(q[key].vals) :
         evaluateCondition(Get(item, key), q[key].vals[i])

\* The callback of Object.keys(queryObj).every: the record passes one key.
KeyPasses(item, q, key) ==
  IF Get(item, key).t \in {"null", "undefined"} THEN FALSE
  ELSE IF q[key].isArray
    THEN \A i \in 1..Len(q[key].vals) :
           evaluateCondition(Get(item, key), q[key].vals[i])
  ELSE evaluateCondition(Get(item, key), q[key].vals[1])

\* A mutant of ItemPasses: one key is enough.
ItemPassesSomeKey(item, q) == \E key \in FilterKeys(q) : KeyPasses(item, q, key)

\* The callback of this.data.filter: the record passes every key.
ItemPasses(item, q) == \A key \in FilterKeys(q) : KeyPasses(item, q, key)

RECURSIVE FilterSeq(_, _)
FilterSeq(d, q) ==
  IF d = <<>> THEN <<>>
  ELSE IF ItemPasses(Head(d), q) THEN <<Head(d)>> \o FilterSeq(Tail(d), q)
  ELSE FilterSeq(Tail(d), q)

\* ------------------------------------------------------------------- sort

\* A mutant of Compare: the leading "-" is stripped but the order stays ascending.
RECURSIVE CompareNoDirection(_, _, _)
CompareNoDirection(a, b, sortFields) ==
  IF sortFields = <<>> THEN 0
  ELSE
    LET field == Head(sortFields)
        isDescending == startsWith(field, <<"-">>)
        fieldName == IF isDescending THEN substring(field, 1) ELSE field
        aValue == Get(a, fieldName)
        bValue == Get(b, fieldName)
    IN IF ~StrictEq(aValue, bValue) /\ JsLess(aValue, bValue) THEN -1
       ELSE IF ~StrictEq(aValue, bValue) /\ JsLess(bValue, aValue) THEN 1
       ELSE CompareNoDirection(a, b, Tail(sortFields))

\* The comparator of sort(): the first sort field on which a and b differ
\* and are ordered decides; a field on which they differ but are not ordered
\* (undefined, NaN) is passed over.
RECURSIVE Compare(_, _, _)
Compare(a, b, sortFields) ==
  IF sortFields = <<>> THEN 0
  ELSE
    LET field == Head(sortFields)
        isDescending == startsWith(field, <<"-">>)
        fieldName == IF isDescending THEN substring(field, 1) ELSE field
        aValue == Get(a, fieldName)
        bValue == Get(b, fieldName)
    IN IF ~StrictEq(aValue, bValue) /\ JsLess(aValue, bValue)
         THEN (IF isDescending THEN 1 ELSE -1)
       ELSE IF ~StrictEq(aValue, bValue) /\ JsLess(bValue, aValue)
         THEN (IF isDescending THEN -1 ELSE 1)
       ELSE Compare(a, b, Tail(sortFields))

\* Array.prototype.sort on V8 (TimSort). Positions are counted from 0 as in
\* the engine; the work array is a sequence, so position i is element i + 1.
\* order[x][y] is what the comparator returns for the elements x and y of
\* the array.
At(a, i) == a[i + 1]

Put(a, i, x) == [a EXCEPT ![i + 1] = x]

\* Copy(source, srcPos, target, dstPos, length): the target with length
\* elements of the source written from dstPos on.
Copy(source, srcPos, target, dstPos, length) ==
  SubSeq(target, 1, dstPos) \o SubSeq(source, srcPos + 1, srcPos + length)
    \o SubSeq(target, dstPos + length + 1, Len(target))

kMinGallopWins == 7

\* ComputeMinRunLength: n itself below 64, else the top six bits of n, plus
\* one when a lower bit is set.
RECURSIVE ComputeMinRunLength(_, _)
ComputeMinRunLength(n, r) ==
  IF n >= 64 THEN ComputeMinRunLength(n \div 2, IF n % 2 = 1 THEN 1 ELSE r)
  ELSE n + r

\* The loop of CountAndMakeRun: the first position from idx on whose element
\* breaks the order of the run (in a descending run one that is not below
\* the element before it, in an ascending run one that is), or high when
\* none does.
RunEnd(work, idx, high, isDescending, order) ==
  LET breaks == {i \in idx..(high - 1) :
                   (order[At(work, i)][At(work, i - 1)] < 0) # isDescending}
  IN IF breaks = {} THEN (IF idx > high THEN idx ELSE high)
     ELSE CHOOSE i \in breaks : \A j \in breaks : i <= j

\* ReverseRange: the elements at from .. to - 1 in reverse order.
Reverse(work, from, to) ==
  SubSeq(work, 1, from) \o [i \in 1..(to - from) |-> work[(to - i) + 1]]
    \o SubSeq(work, to + 1, Len(work))

\* CountAndMakeRun: the length of the run that starts at low, and the work
\* array with that run ascending (a strictly descending run is reversed).
CountAndMakeRun(work, low, high, order) ==
  IF low + 1 = high THEN [len |-> 1, arr |-> work]
  ELSE
    LET isDescending == order[At(work, low + 1)][At(work, low)] < 0
        runLength == RunEnd(work, low + 2, high, isDescending, order) - low
    IN [len |-> runLength,
        arr |-> IF isDescending THEN Reverse(work, low, low + runLength) ELSE work]

\* The slot where pivot goes among the elements at left .. right - 1.
RECURSIVE BinarySlot(_, _, _, _, _)
BinarySlot(work, pivot, left, right, order) ==
  IF left >= right THEN left
  ELSE IF order[pivot][At(work, left + ((right - left) \div 2))] < 0
    THEN BinarySlot(work, pivot, left, left + ((right - left) \div 2), order)
  ELSE BinarySlot(work, pivot, left + ((right - left) \div 2) + 1, right, order)

\* One round of BinaryInsertionSort: the pivot, the element at start, goes
\* to its slot among the ones at low .. start - 1, which move up by one.
InsertPivot(work, left, start) ==
  Put(Copy(work, left, work, left + 1, start - left), left, At(work, start))

\* The rounds for the elements at from .. to - 1, in order (the first half
\* of them, then the second half).
RECURSIVE InsertRange(_, _, _, _, _)
InsertRange(work, low, from, to, order) ==
  IF from >= to \/ from >= Len(work) THEN work
  ELSE IF to - from = 1
    THEN InsertPivot(work, BinarySlot(work, At(work, from), low, from, order), from)
  ELSE InsertRange(InsertRange(work, low, from, from + ((to - from) \div 2), order),
                   low, from + ((to - from) \div 2), to, order)

\* BinaryInsertionSort(low, start, high): the elements at low .. start - 1
\* are in order; the ones at start .. high - 1 are put in place one by one.
BinaryInsertionSort(work, low, start, high, order) ==
  InsertRange(work, low, IF start = low THEN start + 1 ELSE start, high, order)

\* The galloping loop of GallopLeft and GallopRight: the offsets 1, 3, 7, ...
\* from the hint, towards the end of the run (forward) or towards its start,
\* until the element probed is on the other side of the key. before[i] is
\* the outcome of the comparison of the element at offset i with the key.
RECURSIVE GallopOut(_, _, _, _, _, _)
GallopOut(before, hint, forward, lastOfs, offset, maxOfs) ==
  IF offset >= maxOfs THEN <<lastOfs, offset>>
  ELSE IF before[IF forward THEN hint + offset ELSE hint - offset] # forward
    THEN <<lastOfs, offset>>
  ELSE GallopOut(before, hint, forward, offset, (2 * offset) + 1, maxOfs)

\* The binary search that ends both gallops.
RECURSIVE GallopBinary(_, _, _)
GallopBinary(before, lastOfs, offset) ==
  IF lastOfs >= offset THEN offset
  ELSE IF before[lastOfs + ((offset - lastOfs) \div 2)]
    THEN GallopBinary(before, lastOfs + ((offset - lastOfs) \div 2) + 1, offset)
  ELSE GallopBinary(before, lastOfs, lastOfs + ((offset - lastOfs) \div 2))

\* The search between the offsets the galloping loop ended with: the
\* offsets are cut to the run and counted from its start.
GallopSearch(before, hint, forward, out, maxOfs) ==
  IF forward
    THEN GallopBinary(before, out[1] + hint + 1,
                      (IF out[2] > maxOfs THEN maxOfs ELSE out[2]) + hint)
    ELSE GallopBinary(before, (hint - (IF out[2] > maxOfs THEN maxOfs ELSE out[2])) + 1,
                      hint - out[1])

\* What GallopLeft and GallopRight share: the offset in the run where the
\* key belongs, found from the hint.
Gallop(before, length, hint) ==
  GallopSearch(before, hint, before[hint],
               GallopOut(before, hint, before[hint], 0, 1,
                         IF before[hint] THEN length - hint ELSE hint + 1),
               IF before[hint] THEN length - hint ELSE hint + 1)

\* GallopLeft: the key goes before the elements it equals (the comparison is
\* order(element, key) < 0).
GallopLeft(array, key, base, length, hint, order) ==
  Gallop([i \in 0..(length - 1) |-> order[At(array, base + i)][key] < 0], length, hint)

\* GallopRight: the key goes after the elements it equals (the comparison is
\* order(key, element) < 0).
GallopRight(array, key, base, length, hint, order) ==
  Gallop([i \in 0..(length - 1) |-> order[key][At(array, base + i)] >= 0], length, hint)

\* The two ends of MergeLow: Succeed writes what is left of the copy of run
\* A, CopyB moves the rest of run B and writes the last element of A after it.
MergeLowSucceed(m) ==
  [m EXCEPT !.done = TRUE,
            !.work = IF m.lengthA > 0
                       THEN Copy(m.tempArray, m.cursorTemp, m.work, m.dest, m.lengthA)
                       ELSE m.work]

MergeLowCopyB(m) ==
  [m EXCEPT !.done = TRUE,
            !.work = Put(Copy(m.work, m.cursorB, m.work, m.dest, m.lengthB),
                         m.dest + m.lengthB, At(m.tempArray, m.cursorTemp))]

\* Galloping mode is entered when a run has won minGallop times in a row.
EnterGallop(m) ==
  IF m.done \/ (m.nofWinsA < m.minGallop /\ m.nofWinsB < m.minGallop) THEN m
  ELSE [m EXCEPT !.minGallop = @ + 1, !.galloping = TRUE, !.firstIteration = TRUE]

\* Galloping mode is left: ++minGallop, and the counts of wins start again.
LeaveGallop(m) ==
  [m EXCEPT !.minGallop = @ + 1, !.galloping = FALSE, !.nofWinsA = 0, !.nofWinsB = 0]

\* MergeLow, the head of run B is moved: the merge has succeeded when B is
\* empty after it.
MergeLowMoveB(m) ==
  IF m.lengthB = 1
    THEN MergeLowSucceed([m EXCEPT !.work = Put(m.work, m.dest, At(m.work, m.cursorB)),
                                   !.dest = @ + 1, !.cursorB = @ + 1, !.lengthB = @ - 1])
    ELSE [m EXCEPT !.work = Put(m.work, m.dest, At(m.work, m.cursorB)),
                   !.dest = @ + 1, !.cursorB = @ + 1, !.lengthB = @ - 1]

\* MergeLow, the head of the copy of run A is moved: the rest of B is copied
\* when one element of A is left after it.
MergeLowMoveA(m) ==
  IF m.lengthA = 2
    THEN MergeLowCopyB([m EXCEPT !.work = Put(m.work, m.dest, At(m.tempArray, m.cursorTemp)),
                                 !.dest = @ + 1, !.cursorTemp = @ + 1, !.lengthA = @ - 1])
    ELSE [m EXCEPT !.work = Put(m.work, m.dest, At(m.tempArray, m.cursorTemp)),
                   !.dest = @ + 1, !.cursorTemp = @ + 1, !.lengthA = @ - 1]

\* One round of MergeLow, one pair at a time: the smaller of the two heads
\* is moved; a run that has won minGallop times in a row starts galloping.
MergeLowPairs(m, order) ==
  IF order[At(m.work, m.cursorB)][At(m.tempArray, m.cursorTemp)] < 0
    THEN EnterGallop(MergeLowMoveB([m EXCEPT !.nofWinsB = @ + 1, !.nofWinsA = 0]))
    ELSE EnterGallop(MergeLowMoveA([m EXCEPT !.nofWinsA = @ + 1, !.nofWinsB = 0]))

\* MergeLow in galloping mode, the stretch of run A that goes before the
\* head of B: nofWinsA elements are moved at once, then the head of B.
MergeLowTakeA(m, nofWinsA) ==
  IF nofWinsA > 0 /\ m.lengthA - nofWinsA = 1
    THEN MergeLowCopyB(
           [m EXCEPT !.nofWinsA = nofWinsA,
                     !.work = Copy(m.tempArray, m.cursorTemp, m.work, m.dest, nofWinsA),
                     !.dest = @ + nofWinsA, !.cursorTemp = @ + nofWinsA,
                     !.lengthA = @ - nofWinsA])
  ELSE IF nofWinsA > 0 /\ m.lengthA - nofWinsA = 0
    THEN MergeLowSucceed(
           [m EXCEPT !.nofWinsA = nofWinsA,
                     !.work = Copy(m.tempArray, m.cursorTemp, m.work, m.dest, nofWinsA),
                     !.dest = @ + nofWinsA, !.cursorTemp = @ + nofWinsA,
                     !.lengthA = @ - nofWinsA])
  ELSE MergeLowMoveB(
         [m EXCEPT !.nofWinsA = nofWinsA,
                   !.work = Copy(m.tempArray, m.cursorTemp, m.work, m.dest, nofWinsA),
                   !.dest = @ + nofWinsA, !.cursorTemp = @ + nofWinsA,
                   !.lengthA = @ - nofWinsA])

\* MergeLow in galloping mode, the stretch of run B that goes before the
\* head of A: nofWinsB elements are moved at once, then the head of A.
MergeLowTakeB(m, nofWinsB) ==
  IF nofWinsB > 0 /\ m.lengthB - nofWinsB = 0
    THEN MergeLowSucceed(
           [m EXCEPT !.nofWinsB = nofWinsB,
                     !.work = Copy(m.work, m.cursorB, m.work, m.dest, nofWinsB),
                     !.dest = @ + nofWinsB, !.cursorB = @ + nofWinsB,
                     !.lengthB = @ - nofWinsB])
  ELSE MergeLowMoveA(
         [m EXCEPT !.nofWinsB = nofWinsB,
                   !.work = Copy(m.work, m.cursorB, m.work, m.dest, nofWinsB),
                   !.dest = @ + nofWinsB, !.cursorB = @ + nofWinsB,
                   !.lengthB = @ - nofWinsB])

\* The second half of a round of MergeLow in galloping mode.
MergeLowGallopB(m, order) ==
  IF m.done THEN m
  ELSE MergeLowTakeB(m, GallopLeft(m.work, At(m.tempArray, m.cursorTemp),
                                   m.cursorB, m.lengthB, 0, order))

\* One round of MergeLow in galloping mode: whole stretches of a run are
\* moved at once, while one of them is at least kMinGallopWins long.
MergeLowGallop(m, order) ==
  IF ~(m.nofWinsA >= kMinGallopWins \/ m.nofWinsB >= kMinGallopWins \/ m.firstIteration)
    THEN LeaveGallop(m)
  ELSE MergeLowGallopB(
         MergeLowTakeA([m EXCEPT !.firstIteration = FALSE,
                                 !.minGallop = IF @ - 1 < 1 THEN 1 ELSE @ - 1],
                       GallopRight(m.tempArray, At(m.work, m.cursorB),
                                   m.cursorTemp, m.lengthA, 0, order)),
         order)

\* The two ends of MergeHigh: Succeed writes what is left of the copy of run
\* B, CopyA moves the rest of run A up and writes the first element of B
\* before it.
MergeHighSucceed(m) ==
  [m EXCEPT !.done = TRUE,
            !.work = IF m.lengthB > 0
                       THEN Copy(m.tempArray, 0, m.work, m.dest - (m.lengthB - 1), m.lengthB)
                       ELSE m.work]

MergeHighCopyA(m) ==
  [m EXCEPT !.done = TRUE,
            !.work = Put(Copy(m.work, (m.cursorA - m.lengthA) + 1, m.work,
                              (m.dest - m.lengthA) + 1, m.lengthA),
                         m.dest - m.lengthA, At(m.tempArray, m.cursorTemp))]

\* MergeHigh, the last element of run A is moved: the merge has succeeded
\* when A is empty after it.
MergeHighMoveA(m) ==
  IF m.lengthA = 1
    THEN MergeHighSucceed([m EXCEPT !.work = Put(m.work, m.dest, At(m.work, m.cursorA)),
                                    !.dest = @ - 1, !.cursorA = @ - 1, !.lengthA = @ - 1])
    ELSE [m EXCEPT !.work = Put(m.work, m.dest, At(m.work, m.cursorA)),
                   !.dest = @ - 1, !.cursorA = @ - 1, !.lengthA = @ - 1]

\* MergeHigh, the last element of the copy of run B is moved: the rest of A
\* is copied when one element of B is left after it.
MergeHighMoveB(m) ==
  IF m.lengthB = 2
    THEN MergeHighCopyA([m EXCEPT !.work = Put(m.work, m.dest, At(m.tempArray, m.cursorTemp)),
                                  !.dest = @ - 1, !.cursorTemp = @ - 1, !.lengthB = @ - 1])
    ELSE [m EXCEPT !.work = Put(m.work, m.dest, At(m.tempArray, m.cursorTemp)),
                   !.dest = @ - 1, !.cursorTemp = @ - 1, !.lengthB = @ - 1]

\* One round of MergeHigh, one pair at a time, from the right.
MergeHighPairs(m, order) ==
  IF order[At(m.tempArray, m.cursorTemp)][At(m.work, m.cursorA)] < 0
    THEN EnterGallop(MergeHighMoveA([m EXCEPT !.nofWinsA = @ + 1, !.nofWinsB = 0]))
    ELSE EnterGallop(MergeHighMoveB([m EXCEPT !.nofWinsB = @ + 1, !.nofWinsA = 0]))

\* MergeHigh in galloping mode, the stretch of run A that goes after the
\* last element of B: nofWinsA elements are moved at once, then that
\* element of B.
MergeHighTakeA(m, nofWinsA) ==
  IF nofWinsA > 0 /\ m.lengthA - nofWinsA = 0
    THEN MergeHighSucceed(
           [m EXCEPT !.nofWinsA = nofWinsA,
                     !.work = Copy(m.work, (m.cursorA - nofWinsA) + 1, m.work,
                                   (m.dest - nofWinsA) + 1, nofWinsA),
                     !.dest = @ - nofWinsA, !.cursorA = @ - nofWinsA,
                     !.lengthA = @ - nofWinsA])
  ELSE MergeHighMoveB(
         [m EXCEPT !.nofWinsA = nofWinsA,
                   !.work = Copy(m.work, (m.cursorA - nofWinsA) + 1, m.work,
                                 (m.dest - nofWinsA) + 1, nofWinsA),
                   !.dest = @ - nofWinsA, !.cursorA = @ - nofWinsA,
                   !.lengthA = @ - nofWinsA])

\* MergeHigh in galloping mode, the stretch of run B that goes after the
\* last element of A: nofWinsB elements are moved at once, then that
\* element of A.
MergeHighTakeB(m, nofWinsB) ==
  IF nofWinsB > 0 /\ m.lengthB - nofWinsB = 1
    THEN MergeHighCopyA(
           [m EXCEPT !.nofWinsB = nofWinsB,
                     !.work = Copy(m.tempArray, (m.cursorTemp - nofWinsB) + 1, m.work,
                                   (m.dest - nofWinsB) + 1, nofWinsB),
                     !.dest = @ - nofWinsB, !.cursorTemp = @ - nofWinsB,
                     !.lengthB = @ - nofWinsB])
  ELSE IF nofWinsB > 0 /\ m.lengthB - nofWinsB = 0
    THEN MergeHighSucceed(
           [m EXCEPT !.nofWinsB = nofWinsB,
                     !.work = Copy(m.tempArray, (m.cursorTemp - nofWinsB) + 1, m.work,
                                   (m.dest - nofWinsB) + 1, nofWinsB),
                     !.dest = @ - nofWinsB, !.cursorTemp = @ - nofWinsB,
                     !.lengthB = @ - nofWinsB])
  ELSE MergeHighMoveA(
         [m EXCEPT !.nofWinsB = nofWinsB,
                   !.work = Copy(m.tempArray, (m.cursorTemp - nofWinsB) + 1, m.work,
                                 (m.dest - nofWinsB) + 1, nofWinsB),
                   !.dest = @ - nofWinsB, !.cursorTemp = @ - nofWinsB,
                   !.lengthB = @ - nofWinsB])

\* The second half of a round of MergeHigh in galloping mode.
MergeHighGallopB(m, order) ==
  IF m.done THEN m
  ELSE MergeHighTakeB(m, m.lengthB - GallopLeft(m.tempArray, At(m.work, m.cursorA),
                                                0, m.lengthB, m.lengthB - 1, order))

\* One round of MergeHigh in galloping mode.
MergeHighGallop(m, order) ==
  IF ~(m.nofWinsA >= kMinGallopWins \/ m.nofWinsB >= kMinGallopWins \/ m.firstIteration)
    THEN LeaveGallop(m)
  ELSE MergeHighGallopB(
         MergeHighTakeA([m EXCEPT !.firstIteration = FALSE,
                                  !.minGallop = IF @ - 1 < 1 THEN 1 ELSE @ - 1],
                        m.lengthA - GallopRight(m.work, At(m.tempArray, m.cursorTemp),
                                                m.baseA, m.lengthA, m.lengthA - 1, order)),
         order)

\* The loops of MergeLow and MergeHigh: rounds are made until the merge is
\* done. rounds is a number the loops stay below (a round moves an element
\* or is followed by one that does); the first half of the rounds is made,
\* then the second half.
RECURSIVE MergeLoop(_, _, _)
MergeLoop(m, rounds, order) ==
  IF m.done THEN m
  ELSE IF rounds <= 1
    THEN (IF m.low
            THEN (IF m.galloping THEN MergeLowGallop(m, order)
                  ELSE MergeLowPairs(m, order))
            ELSE (IF m.galloping THEN MergeHighGallop(m, order)
                  ELSE MergeHighPairs(m, order)))
  ELSE MergeLoop(MergeLoop(m, rounds \div 2, order), rounds - (rounds \div 2), order)

\* MergeLow: run A (the shorter one) is copied aside and the two runs are
\* merged from the left into the place of A and B. The first element of B
\* is moved before the loops.
MergeLow(work, baseA, lengthA, baseB, lengthB, minGallop, order) ==
  LET m == [work |-> work,
            tempArray |-> SubSeq(work, baseA + 1, baseA + lengthA),
            dest |-> baseA, cursorTemp |-> 0, cursorA |-> 0, cursorB |-> baseB,
            baseA |-> baseA, lengthA |-> lengthA, lengthB |-> lengthB,
            minGallop |-> minGallop, nofWinsA |-> 0, nofWinsB |-> 0,
            low |-> TRUE, galloping |-> FALSE, firstIteration |-> FALSE, done |-> FALSE]
  IN MergeLoop(IF lengthB > 1 /\ lengthA = 1 THEN MergeLowCopyB(MergeLowMoveB(m))
               ELSE MergeLowMoveB(m),
               2 * (lengthA + lengthB), order)

\* MergeHigh: run B (the shorter one) is copied aside and the two runs are
\* merged from the right. The last element of A is moved before the loops.
MergeHigh(work, baseA, lengthA, baseB, lengthB, minGallop, order) ==
  LET m == [work |-> work,
            tempArray |-> SubSeq(work, baseB + 1, baseB + lengthB),
            dest |-> (baseB + lengthB) - 1, cursorTemp |-> lengthB - 1,
            cursorA |-> (baseA + lengthA) - 1, cursorB |-> 0,
            baseA |-> baseA, lengthA |-> lengthA, lengthB |-> lengthB,
            minGallop |-> minGallop, nofWinsA |-> 0, nofWinsB |-> 0,
            low |-> FALSE, galloping |-> FALSE, firstIteration |-> FALSE, done |-> FALSE]
  IN MergeLoop(IF lengthA > 1 /\ lengthB = 1 THEN MergeHighCopyA(MergeHighMoveA(m))
               ELSE MergeHighMoveA(m),
               2 * (lengthA + lengthB), order)

\* MergeAt, the stack: the runs i and i + 1 become one run.
MergeRuns(pendingRuns, i) ==
  SubSeq(pendingRuns, 1, i)
    \o <<[base |-> At(pendingRuns, i).base,
          length |-> At(pendingRuns, i).length + At(pendingRuns, i + 1).length]>>
    \o SubSeq(pendingRuns, i + 3, Len(pendingRuns))

\* MergeAt, the state after the merge m of the runs i and i + 1.
Merged(sortState, i, m) ==
  [work |-> m.work, pendingRuns |-> MergeRuns(sortState.pendingRuns, i),
   minGallop |-> m.minGallop]

\* MergeAt, the end: lengthB is run B without the elements that are
\* already in place at its end; the shorter of the two runs is the one
\* copied aside.
MergeAtB(sortState, i, k, lengthB, order) ==
  IF lengthB = 0 THEN [sortState EXCEPT !.pendingRuns = MergeRuns(@, i)]
  ELSE IF At(sortState.pendingRuns, i).length - k <= lengthB
    THEN Merged(sortState, i,
                MergeLow(sortState.work, At(sortState.pendingRuns, i).base + k,
                         At(sortState.pendingRuns, i).length - k,
                         At(sortState.pendingRuns, i + 1).base, lengthB,
                         sortState.minGallop, order))
  ELSE Merged(sortState, i,
              MergeHigh(sortState.work, At(sortState.pendingRuns, i).base + k,
                        At(sortState.pendingRuns, i).length - k,
                        At(sortState.pendingRuns, i + 1).base, lengthB,
                        sortState.minGallop, order))

\* MergeAt, the middle: the first k elements of run A are already in place;
\* the place in run B of the last element of A is looked for.
MergeAtA(sortState, i, k, order) ==
  IF At(sortState.pendingRuns, i).length - k = 0
    THEN [sortState EXCEPT !.pendingRuns = MergeRuns(@, i)]
  ELSE MergeAtB(sortState, i, k,
                GallopLeft(sortState.work,
                           At(sortState.work,
                              (At(sortState.pendingRuns, i).base
                                 + At(sortState.pendingRuns, i).length) - 1),
                           At(sortState.pendingRuns, i + 1).base,
                           At(sortState.pendingRuns, i + 1).length,
                           At(sortState.pendingRuns, i + 1).length - 1, order),
                order)

\* MergeAt(i): the runs i and i + 1 of the stack become one. The elements
\* of A that are already in place at its start and those of B at its end
\* are left out of the merge.
MergeAt(sortState, i, order) ==
  MergeAtA(sortState, i,
           GallopRight(sortState.work,
                       At(sortState.work, At(sortState.pendingRuns, i + 1).base),
                       At(sortState.pendingRuns, i).base,
                       At(sortState.pendingRuns, i).length, 0, order),
           order)

\* RunInvariantEstablished: run n - 2 is longer than the runs n - 1 and n
\* together.
RunInvariantEstablished(pendingRuns, n) ==
  IF n < 2 THEN TRUE
  ELSE At(pendingRuns, n - 2).length
         > At(pendingRuns, n - 1).length + At(pendingRuns, n).length

\* The run MergeCollapse and MergeForceCollapse merge with its successor:
\* the last but one, or the one before it when that is shorter than the
\* last.
RunToMerge(pendingRuns) ==
  IF Len(pendingRuns) > 2
     /\ At(pendingRuns, Len(pendingRuns) - 3).length
          < At(pendingRuns, Len(pendingRuns) - 1).length
    THEN Len(pendingRuns) - 3
    ELSE Len(pendingRuns) - 2

\* MergeCollapse: runs are merged until the lengths on the stack decrease
\* fast enough.
RECURSIVE MergeCollapse(_, _)
MergeCollapse(sortState, order) ==
  IF Len(sortState.pendingRuns) <= 1 THEN sortState
  ELSE IF \/ ~RunInvariantEstablished(sortState.pendingRuns, Len(sortState.pendingRuns) - 1)
          \/ ~RunInvariantEstablished(sortState.pendingRuns, Len(sortState.pendingRuns) - 2)
    THEN MergeCollapse(MergeAt(sortState, RunToMerge(sortState.pendingRuns), order), order)
  ELSE IF At(sortState.pendingRuns, Len(sortState.pendingRuns) - 2).length
            <= At(sortState.pendingRuns, Len(sortState.pendingRuns) - 1).length
    THEN MergeCollapse(MergeAt(sortState, Len(sortState.pendingRuns) - 2, order), order)
  ELSE sortState

\* MergeForceCollapse: all the runs left are merged into one.
RECURSIVE MergeForceCollapse(_, _)
MergeForceCollapse(sortState, order) ==
  IF Len(sortState.pendingRuns) <= 1 THEN sortState
  ELSE MergeForceCollapse(MergeAt(sortState, RunToMerge(sortState.pendingRuns), order),
                          order)

\* The loop of ArrayTimSortImpl: the next run is found, made minRunLength
\* long by binary insertion when it is shorter, pushed and merged.
RECURSIVE TimSortRuns(_, _, _, _, _)
TimSortRuns(sortState, low, remaining, minRunLength, order) ==
  IF remaining = 0 THEN sortState
  ELSE
    LET run == CountAndMakeRun(sortState.work, low, low + remaining, order)
        forcedRunLength == IF minRunLength < remaining THEN minRunLength ELSE remaining
        currentRunLength == IF run.len < minRunLength THEN forcedRunLength ELSE run.len
        work == IF run.len < minRunLength
                  THEN BinaryInsertionSort(run.arr, low, low + run.len,
                                           low + forcedRunLength, order)
                  ELSE run.arr
        pushed == [sortState EXCEPT
                     !.work = work,
                     !.pendingRuns = Append(@, [base |-> low, length |-> currentRunLength])]
    IN TimSortRuns(MergeCollapse(pushed, order), low + currentRunLength,
                   remaining - currentRunLength, minRunLength, order)

\* ArrayTimSortImpl: the runs of the array are found and merged.
ArrayTimSortImpl(d, order) ==
  MergeForceCollapse(
    TimSortRuns([work |-> d, pendingRuns |-> <<>>, minGallop |-> kMinGallopWins],
                0, Len(d), ComputeMinRunLength(Len(d), 0), order),
    order).work

\* Array.prototype.sort: below 64 elements the array is one run, the leading
\* run extended by binary insertion; from 64 on it is cut into runs of at
\* least 32 to 64 elements that are merged. The comparator is the one of
\* the sort fields.
SortArray(d, sortFields) ==
  IF Len(d) < 2 THEN d
  ELSE ArrayTimSortImpl(
         d, [a \in {d[i] : i \in 1..Len(d)} |->
               [b \in {d[i] : i \in 1..Len(d)} |-> Compare(a, b, sortFields)]])

\* ------------------------------------------------------------ limitFields

\* item.hasOwnProperty(field) is a call of what the record holds for the key
\* hasOwnProperty: the method of Object.prototype, unless the record owns a
\* key of that name, whose value is no function, and then the call throws a
\* TypeError.
hasOwnPropertyThrows(item) == Get(item, kHasOwnProperty).t # "function"

\* The callback of this.data.map: whether it threw (it calls
\* item.hasOwnProperty for the first field of the list), and else the new
\* record with the requested fields the item owns.
Project(item, fields) ==
  [threw |-> fields # <<>> /\ hasOwnPropertyThrows(item),
   item |-> [f \in {g \in DOMAIN item : \E i \in 1..Len(fields) : fields[i] = g}
               |-> item[f]]]

\* A mutant of ProjectSeq: the first element is passed over.
ProjectSeqSkipsFirst(d, fields) ==
  IF \E i \in 1..Len(d) : Project(d[i], fields).threw
    THEN [threw |-> TRUE, data |-> d]
    ELSE [threw |-> FALSE,
          data |-> [i \in 1..(Len(d) - 1) |-> Project(d[i + 1], fields).item]]

\* this.data.map(...) with the fields of the list: when the callback throws
\* for a record the assignment is not made and this.data stays.
ProjectSeq(d, fields) ==
  IF \E i \in 1..Len(d) : Project(d[i], fields).threw
    THEN [threw |-> TRUE, data |-> d]
    ELSE [threw |-> FALSE, data |-> [i \in 1..Len(d) |-> Project(d[i], fields).item]]

\* --------------------------------------------------- paginate, getMetadata

DefaultPage == 1

DefaultLimit == 100

PageOf(q) == NumberOr(q, kPage, DefaultPage)

LimitOf(q) == NumberOr(q, kLimit, DefaultLimit)

\* A mutant of SkipOf: the pages before the one asked for are counted with it.
SkipOfFromPage(q) == PageOf(q) * LimitOf(q)

\* const skip = (page - 1) * limit
SkipOf(q) == (PageOf(q) - 1) * LimitOf(q)

\* A relative index of Array.prototype.slice, brought into 0..len.
SliceIndex(k, len) ==
  IF k < 0 THEN (IF len + k < 0 THEN 0 ELSE len + k)
  ELSE IF k > len THEN len
  ELSE k

\* Array.prototype.slice(start, end)
Slice(d, start, end) ==
  SubSeq(d, SliceIndex(start, Len(d)) + 1, SliceIndex(end, Len(d)))

\* A mutant of CeilDiv: the quotient is rounded down.
CeilDivFloor(total, limit) ==
  IF limit > 0 THEN total \div limit
  ELSE 0 - ((total + (0 - limit) - 1) \div (0 - limit))

\* Math.ceil(total / limit) for total >= 0 and limit # 0
CeilDiv(total, limit) ==
  IF limit > 0 THEN (total + limit - 1) \div limit
  ELSE 0 - (total \div (0 - limit))

\* getMetadata()
getMetadata(q, fd) ==
  LET page == PageOf(q)
      limit == LimitOf(q)
      total == Len(fd)
      totalPages == CeilDiv(total, limit)
  IN [page |-> page,
      limit |-> limit,
      total |-> total,
      totalPages |-> totalPages,
      hasNextPage |-> page < totalPages,
      hasPrevPage |-> page > 1]

\* ----------------------------------------------------------------- inputs

\* The longest input array.
MaxLen == 3

fName == <<"n">>

fSeverity == <<"s">>

fDuration == <<"d">>

fMissing == <<"x">>

tCrit == <<"c", "r", "i", "t">>

tWarn == <<"w", "a", "r", "n">>

tGtA == <<"g", "t", ":", "a">>

\* The text of the function Object, which a record inherits as its
\* constructor.
tObject == NativeFunction(<<"O", "b", "j", "e", "c", "t">>).s

\* The records the input arrays are made of. None owns a key constructor,
\* and one owns a key hasOwnProperty.
RecordPool ==
  { (fName :> Str(<<"C", "P", "U">>)) @@ (fSeverity :> Str(tCrit)) @@ (fDuration :> Num(8)),
    (fName :> Str(<<"M", "e", "m">>)) @@ (fSeverity :> Str(tWarn)) @@ (fDuration :> Num(15)),
    (fName :> Str(<<"c", "p", "u">>)) @@ (fSeverity :> Str(tGtA)) @@ (fDuration :> Str(<<"2", "0">>)),
    (fSeverity :> Str(tCrit)) @@ (fDuration :> Null) @@ (kHasOwnProperty :> Str(<<"a">>)),
    (fName :> Str(<<"M", "e", "m">>)) @@ (fSeverity :> Null) }

RECURSIVE SeqsUpTo(_, _)
SeqsUpTo(S, n) ==
  IF n = 0 THEN {<<>>}
  ELSE SeqsUpTo(S, n - 1)
         \cup {Append(d, r) : d \in {e \in SeqsUpTo(S, n - 1) : Len(e) = n - 1}, r \in S}

Inputs == SeqsUpTo(RecordPool, MaxLen)

\* A function with no key.
Empty == [k \in {} |-> One(<<>>)]

\* The filter conditions of the queries.
FilterPool ==
  { Empty,
    fSeverity :> One(tCrit),
    fName :> One(<<"c", "p", "u">>),
    fSeverity :> One(tWarn \o <<",">> \o tCrit),
    fSeverity :> One(tGtA),
    fSeverity :> One(<<"g", "t", ":", "5", ",">> \o tCrit),
    fDuration :> One(<<"g", "t", "e", ":", "5">>),
    fDuration :> One(<<"g", "t", "e", ":", "1", "3">>),
    fDuration :> One(<<"8", ",", "1", "2">>),
    fDuration :> One(<<"l", "t", ":", ",", "5">>),
    fDuration :> Many(<<<<"g", "t", "e", ":", "5">>, <<"l", "t", "e", ":", "1", "0">>>>),
    fDuration :> Many(<<<<"g", "t", "e", ":", "1", "3">>, <<"l", "t", ":", "2", "0">>>>),
    (fSeverity :> One(tCrit)) @@ (fDuration :> One(<<"l", "t", ":", "1", "3">>)),
    fMissing :> One(<<"a">>),
    kConstructor :> One(tObject) }

\* The reserved keys of the queries.
ControlPool ==
  { Empty,
    (kPage :> One(<<"2">>)) @@ (kLimit :> One(<<"1">>)),
    (kPage :> One(<<"1">>)) @@ (kLimit :> One(<<"2">>)) @@ (kSort :> One(<<"-", "d">>)),
    (kPage :> One(<<"-", "1">>)) @@ (kLimit :> One(<<"1">>)),
    (kPage :> One(<<"0">>)) @@ (kLimit :> One(<<"0">>)),
    (kPage :> One(<<"a", "b", "c">>)) @@ (kLimit :> One(<<"-", "1">>)),
    (kPage :> One(<<"3">>)) @@ (kLimit :> One(<<" ", "1">>)) @@ (kFields :> One(<<>>)),
    kSort :> One(<<"d">>),
    (kSort :> One(<<"-", "s", ",", "d">>)) @@ (kFields :> One(<<"d", ",", "x">>)),
    kFields :> One(<<"s">>),
    kSort :> Many(<<<<"d">>, <<"-", "s">>>>),
    kFields :> Many(<<<<"d">>, <<"s">>>>),
    (kPage :> Many(<<<<"2">>>>)) @@ (kLimit :> One(<<"1">>)) @@ (kSort :> One(<<"s">>)),
    (kPage :> One(<<"2">>)) @@ (kLimit :> One(<<"1">>)) @@ (kSort :> One(<<"-", "d">>))
      @@ (kFields :> One(<<"n", ",", "d">>)),
    (kLimit :> One(<<"2">>)) @@ (kSort :> One(<<"-", "d">>)) @@ (kFields :> One(<<"n">>)) }

Queries == {f @@ c : f \in FilterPool, c \in ControlPool}

\* ------------------------------------------------------------------ state

VARIABLES
  input0,        \* the array passed to the constructor, as it was then
  input,         \* the caller's array, as it is now
  queryString,   \* this.queryString
  data,          \* this.data
  aliased,       \* this.data is the caller's array itself, not a copy
  filteredData,  \* this.filteredData
  prev,          \* this.data before the most recent stage
  pc,            \* the next step of the handler
  response,      \* what the handler passed to res.json
  evItem,        \* evaluateCondition alone: its itemValue
  evValue,       \* evaluateCondition alone: its value
  evResult,      \* evaluateCondition alone: what it returned
  originalData,  \* this.originalData of the second APIFeatures class
  handler,       \* the controller handler or service method that runs
  request,       \* a handler's inputs: what req.query or req.body holds
  reply,         \* what a handler sent with res.status(...).json(...)
  calls,         \* the calls made so far: service methods, file writes, HTTP
  fault,         \* how the environment of a service method fails
  thrown,        \* the error that reached the caller of a service method
  served,        \* the pages sent so far to successive requests
  pagedLength    \* the length this.data had when paginate() was last called

vars == <<input0, input, queryString, data, aliased, filteredData, prev, pc,
          response, evItem, evValue, evResult, originalData, handler, request,
          reply, calls, fault, thrown, served, pagedLength>>

evVars == <<evItem, evValue, evResult>>

\* The state of what is not the first APIFeatures class.
extVars == <<originalData, handler, request, reply, calls, fault, thrown,
             served, pagedLength>>

\* An object of the first class has no originalData.
OriginalIdle == originalData = <<>>

NoReply == [status |-> 0, success |-> FALSE]

NoFault == [step |-> "none", status |-> 0]

NoError == [isError |-> FALSE, status |-> 0]

\* No handler runs.
ControllerIdle ==
  /\ handler = "none"
  /\ request = <<>>
  /\ reply = NoReply
  /\ calls = <<>>

\* No service method runs.
ServiceIdle ==
  /\ fault = NoFault
  /\ thrown = NoError

\* No history is kept.
HistoryIdle ==
  /\ served = <<>>
  /\ pagedLength = 0

ExtIdle == OriginalIdle /\ ControllerIdle /\ ServiceIdle /\ HistoryIdle

NoResponse ==
  [success |-> FALSE, data |-> <<>>,
   pagination |-> [page |-> 0, limit |-> 0, total |-> 0, totalPages |-> 0,
                   hasNextPage |-> FALSE, hasPrevPage |-> FALSE]]

\* No APIFeatures object is in use.
PipelineIdle ==
  /\ input0 = <<>>
  /\ input = <<>>
  /\ queryString = Empty
  /\ data = <<>>
  /\ aliased = FALSE
  /\ filteredData = <<>>
  /\ prev = <<>>
  /\ response = NoResponse
  /\ evItem = Undefined
  /\ evValue = <<>>
  /\ evResult = "none"

\* new APIFeatures(allRules, req.query)
Init ==
  /\ input0 \in Inputs
  /\ queryString \in Queries
  /\ input = input0
  /\ data = input0
  /\ aliased = TRUE
  /\ filteredData = input0
  /\ prev = input0
  /\ pc = "filter"
  /\ response = NoResponse
  /\ evItem = Undefined
  /\ evValue = <<>>
  /\ evResult = "none"
  /\ ExtIdle

\* filter(): with a filter key, this.data becomes a new array.
Filter ==
  /\ pc = "filter"
  /\ prev' = data
  /\ IF FilterKeys(queryString) # {}
       THEN data' = FilterSeq(data, queryString) /\ aliased' = FALSE
       ELSE UNCHANGED <<data, aliased>>
  /\ pc' = "sort"
  /\ UNCHANGED <<input0, input, queryString, filteredData, response, evVars, extVars>>

\* What sort() leaves in the caller's array: it sorts this.data in place.
InputAfterSort(inp, d, isSame) == IF isSame THEN d ELSE inp

\* A mutant of Sort: the records are cut down to the requested fields before
\* they are ordered.
SortAfterProjection ==
  /\ pc = "sort"
  /\ prev' = data
  /\ IF ~Truthy(queryString, kSort)
       THEN pc' = "limitFields" /\ UNCHANGED <<data, input>>
     ELSE IF queryString[kSort].isArray
       THEN pc' = "threw" /\ UNCHANGED <<data, input>>
     ELSE /\ data' = SortArray(
                        IF Truthy(queryString, kFields) /\ ~queryString[kFields].isArray
                          THEN ProjectSeq(data, split(queryString[kFields].vals[1])).data
                          ELSE data,
                        split(queryString[kSort].vals[1]))
          /\ input' = InputAfterSort(input, data', aliased)
          /\ pc' = "limitFields"
  /\ UNCHANGED <<input0, queryString, aliased, filteredData, response, evVars, extVars>>

\* sort(): an array-valued sort has no split method, and the call throws.
Sort ==
  /\ pc = "sort"
  /\ prev' = data
  /\ IF ~Truthy(queryString, kSort)
       THEN pc' = "limitFields" /\ UNCHANGED <<data, input>>
     ELSE IF queryString[kSort].isArray
       THEN pc' = "threw" /\ UNCHANGED <<data, input>>
     ELSE /\ data' = SortArray(data, split(queryString[kSort].vals[1]))
          /\ input' = InputAfterSort(input, data', aliased)
          /\ pc' = "limitFields"
  /\ UNCHANGED <<input0, queryString, aliased, filteredData, response, evVars, extVars>>

\* A mutant of LimitFields: without a fields value the list of fields is
\* taken to be empty.
LimitFieldsEmptyList ==
  /\ pc = "limitFields"
  /\ prev' = data
  /\ IF ~Truthy(queryString, kFields)
       THEN /\ data' = ProjectSeq(data, <<>>).data
            /\ aliased' = FALSE
            /\ pc' = "paginate"
     ELSE IF queryString[kFields].isArray
       THEN pc' = "threw" /\ UNCHANGED <<data, aliased>>
     ELSE IF ProjectSeq(data, split(queryString[kFields].vals[1])).threw
       THEN pc' = "threw" /\ UNCHANGED <<data, aliased>>
     ELSE /\ data' = ProjectSeq(data, split(queryString[kFields].vals[1])).data
          /\ aliased' = FALSE
          /\ pc' = "paginate"
  /\ UNCHANGED <<input0, input, queryString, filteredData, response, evVars, extVars>>

\* limitFields(): an array-valued fields has no split method either, and
\* the callback of map throws for a record that owns a key hasOwnProperty.
LimitFields ==
  /\ pc = "limitFields"
  /\ prev' = data
  /\ IF ~Truthy(queryString, kFields)
       THEN pc' = "paginate" /\ UNCHANGED <<data, aliased>>
     ELSE IF queryString[kFields].isArray
       THEN pc' = "threw" /\ UNCHANGED <<data, aliased>>
     ELSE IF ProjectSeq(data, split(queryString[kFields].vals[1])).threw
       THEN pc' = "threw" /\ UNCHANGED <<data, aliased>>
     ELSE /\ data' = ProjectSeq(data, split(queryString[kFields].vals[1])).data
          /\ aliased' = FALSE
          /\ pc' = "paginate"
  /\ UNCHANGED <<input0, input, queryString, filteredData, response, evVars, extVars>>

\* A mutant of SavedAtPaginate: the snapshot taken by the constructor is kept.
SavedAtPaginateStale(d, fd) == fd

\* this.filteredData = [...this.data]
SavedAtPaginate(d, fd) == d

\* paginate()
Paginate ==
  /\ pc = "paginate"
  /\ prev' = data
  /\ filteredData' = SavedAtPaginate(data, filteredData)
  /\ data' = Slice(data, SkipOf(queryString), SkipOf(queryString) + LimitOf(queryString))
  /\ aliased' = FALSE
  /\ pc' = "respond"
  /\ UNCHANGED <<input0, input, queryString, response, evVars, extVars>>

\* A mutant of Respond: data is read as it was before paginate().
RespondUnpaged ==
  /\ pc = "respond"
  /\ response' = [success |-> TRUE, data |-> prev,
                  pagination |-> getMetadata(queryString, filteredData)]
  /\ pc' = "done"
  /\ UNCHANGED <<input0, input, queryString, data, aliased, filteredData, prev, evVars, extVars>>

\* features.data, features.getMetadata() and res.json(...)
Respond ==
  /\ pc = "respond"
  /\ response' = [success |-> TRUE, data |-> data,
                  pagination |-> getMetadata(queryString, filteredData)]
  /\ pc' = "done"
  /\ UNCHANGED <<input0, input, queryString, data, aliased, filteredData, prev, evVars, extVars>>

Next == Filter \/ Sort \/ LimitFields \/ Paginate \/ Respond

Spec == Init /\ [][Next]_vars

\* ------------------------------------------------ evaluateCondition alone

tCpu == <<"c", "p", "u">>

tDay7 == <<"2", "0", "2", "5", "-", "1", "1", "-", "0", "7">>

tDay8 == <<"2", "0", "2", "5", "-", "1", "1", "-", "0", "8">>

\* The field values evaluateCondition is applied to.
ValuePool ==
  { Str(tCrit), Str(tGtA), Str(<<"C", "P", "U">>), Str(<<"2", "0">>), Str(<<"5">>),
    Str(tDay7), Num(3), Num(8), Num(15), Num(20), Bool(TRUE),
    ObjectPrototype[kConstructor] }

\* The raw condition values.
ConditionPool ==
  { tGtA,
    pLte \o tCrit,
    pGte \o <<"5">>,
    pGt \o <<"8">>,
    pLte \o <<"1", "0">>,
    pLt \o <<"1", "3">>,
    pGte \o <<"2", "0">>,
    pGte \o tDay7,
    pLt \o tDay8,
    tCrit,
    tCpu,
    tWarn \o <<",">> \o tCrit,
    <<"8", ",", " ", "2", "0">>,
    <<"8">>,
    <<"1">>,
    <<"g", "t", ":", "5", ",">> \o tCrit,
    tObject }

InitEval ==
  /\ evItem \in ValuePool
  /\ evValue \in ConditionPool
  /\ evResult = "none"
  /\ ExtIdle
  /\ pc = "evaluate"
  /\ input0 = <<>>
  /\ input = <<>>
  /\ queryString = Empty
  /\ data = <<>>
  /\ aliased = FALSE
  /\ filteredData = <<>>
  /\ prev = <<>>
  /\ response = NoResponse

\* One call of evaluateCondition(itemValue, value).
Evaluate ==
  /\ pc = "evaluate"
  /\ evResult' = IF evaluateCondition(evItem, evValue) THEN "true" ELSE "false"
  /\ pc' = "evaluated"
  /\ UNCHANGED <<input0, input, queryString, data, aliased, filteredData, prev,
                 response, evItem, evValue, extVars>>

SpecEval == InitEval /\ [][Evaluate]_vars

\* ------------------------------------------------------------- sort alone

\* The longest array handed to sort() alone.
MaxSortLen == 4

\* The records sort() alone is applied to: two that agree on d and s, one that
\* agrees with them on d only, one without d, and two that own a key
\* constructor, which the others inherit.
SortRecordPool ==
  { (fName :> Str(<<"a">>)) @@ (fSeverity :> Str(<<"m">>)) @@ (fDuration :> Num(5)),
    (fName :> Str(<<"b">>)) @@ (fSeverity :> Str(<<"m">>)) @@ (fDuration :> Num(5)),
    (fName :> Str(<<"c">>)) @@ (fSeverity :> Str(<<"z">>)),
    (fName :> Str(<<"d">>)) @@ (fSeverity :> Str(<<"z", "z">>)) @@ (fDuration :> Num(1))
      @@ (kConstructor :> Str(<<"a">>)),
    (fName :> Str(<<"e">>)) @@ (fSeverity :> Str(<<"b">>)) @@ (fDuration :> Num(9))
      @@ (kConstructor :> Str(<<"x">>)),
    (fName :> Str(<<"f">>)) @@ (fSeverity :> Str(<<"b">>)) @@ (fDuration :> Num(5)) }

SortInputs == SeqsUpTo(SortRecordPool, MaxSortLen)

\* The sort parameters: one key, two keys, either direction, a key with a
\* blank before it, a key of Object.prototype, an empty text, and none.
SortQueries ==
  { kSort :> One(<<"d">>),
    kSort :> One(kConstructor),
    kSort :> One(<<"-", "d">>),
    kSort :> One(<<"s">>),
    kSort :> One(<<"d", ",", "s">>),
    kSort :> One(<<"d", ",", "-", "s">>),
    kSort :> One(<<"-", "s", ",", "d">>),
    kSort :> One(<<" ", "d">>),
    kSort :> One(<<>>),
    Empty }

\* An APIFeatures object on which sort() is the first call.
InitSort ==
  /\ input0 \in SortInputs
  /\ queryString \in SortQueries
  /\ input = input0
  /\ data = input0
  /\ aliased = TRUE
  /\ filteredData = input0
  /\ prev = input0
  /\ pc = "sort"
  /\ response = NoResponse
  /\ evItem = Undefined
  /\ evValue = <<>>
  /\ evResult = "none"
  /\ ExtIdle

SpecSort == InitSort /\ [][Sort]_vars

\* ------------------------------------------------------ limitFields alone

\* The fields parameters: one field, a field no record has, every field, a
\* field with a blank before it, an empty text, an array, and none.
FieldsQueries ==
  { kFields :> One(<<"s">>),
    kFields :> One(<<"d", ",", "x">>),
    kFields :> One(<<"n", ",", "s", ",", "d">>),
    kFields :> One(<<"d", ",", " ", "s">>),
    kFields :> One(<<>>),
    kFields :> Many(<<<<"d">>, <<"s">>>>),
    Empty }

\* An APIFeatures object on which limitFields() is the first call.
InitProject ==
  /\ input0 \in Inputs
  /\ queryString \in FieldsQueries
  /\ input = input0
  /\ data = input0
  /\ aliased = TRUE
  /\ filteredData = input0
  /\ prev = input0
  /\ pc = "limitFields"
  /\ response = NoResponse
  /\ evItem = Undefined
  /\ evValue = <<>>
  /\ evResult = "none"
  /\ ExtIdle

\* limitFields() called once more on the same object.
LimitFieldsAgain ==
  /\ pc = "paginate"
  /\ prev' = data
  /\ IF ~Truthy(queryString, kFields)
       THEN pc' = "limitedTwice" /\ UNCHANGED <<data, aliased>>
     ELSE IF queryString[kFields].isArray
       THEN pc' = "threw" /\ UNCHANGED <<data, aliased>>
     ELSE IF ProjectSeq(data, split(queryString[kFields].vals[1])).threw
       THEN pc' = "threw" /\ UNCHANGED <<data, aliased>>
     ELSE /\ data' = ProjectSeq(data, split(queryString[kFields].vals[1])).data
          /\ aliased' = FALSE
          /\ pc' = "limitedTwice"
  /\ UNCHANGED <<input0, input, queryString, filteredData, response, evVars, extVars>>

NextProject == LimitFields \/ LimitFieldsAgain

SpecProject == InitProject /\ [][NextProject]_vars

\* ----------------------------------------------------- the guide's example

kName == <<"n", "a", "m", "e">>

kSeverity == <<"s", "e", "v", "e", "r", "i", "t", "y">>

kDuration == <<"d", "u", "r", "a", "t", "i", "o", "n">>

tCritical == <<"c", "r", "i", "t", "i", "c", "a", "l">>

tWarning == <<"w", "a", "r", "n", "i", "n", "g">>

CpuUsage ==
  (kName :> Str(<<"C", "P", "U", " ", "U", "s", "a", "g", "e">>))
    @@ (kSeverity :> Str(tCritical)) @@ (kDuration :> Num(8))

MemoryAlert ==
  (kName :> Str(<<"M", "e", "m", "o", "r", "y", " ", "A", "l", "e", "r", "t">>))
    @@ (kSeverity :> Str(tWarning)) @@ (kDuration :> Num(3))

CpuLoad ==
  (kName :> Str(<<"C", "P", "U", " ", "L", "o", "a", "d">>))
    @@ (kSeverity :> Str(tCritical)) @@ (kDuration :> Num(12))

ExampleInput == <<CpuUsage, MemoryAlert, CpuLoad>>

\* severity=critical&duration=gte:5&duration=lte:10&sort=-duration&limit=10&page=1
ExampleQuery ==
  (kSeverity :> One(tCritical))
    @@ (kDuration :> Many(<<pGte \o <<"5">>, pLte \o <<"1", "0">>>>))
    @@ (kSort :> One(<<"-">> \o kDuration))
    @@ (kLimit :> One(<<"1", "0">>))
    @@ (kPage :> One(<<"1">>))

ExampleInputs == SeqsUpTo({CpuUsage, MemoryAlert, CpuLoad}, MaxLen)

\* The example's query, its parts, and the range written with operands that
\* are no dates.
ExampleQueries ==
  { ExampleQuery,
    kSeverity :> One(tCritical),
    (kSeverity :> One(tCritical)) @@ (kSort :> One(<<"-">> \o kDuration)),
    (kDuration :> Many(<<pGte \o <<"5">>, pLte \o <<"1", "0">>>>)),
    (kDuration :> Many(<<pGte \o <<"1", "3">>, pLte \o <<"2", "0">>>>))
      @@ (kSort :> One(kDuration)),
    (kSort :> One(<<"-">> \o kDuration)) @@ (kLimit :> One(<<"1">>))
      @@ (kPage :> One(<<"2">>)) @@ (kFields :> One(kName)),
    Empty }

\* new APIFeatures(allRules, req.query) on the example's records
InitExample ==
  /\ input0 \in ExampleInputs
  /\ queryString \in ExampleQueries
  /\ input = input0
  /\ data = input0
  /\ aliased = TRUE
  /\ filteredData = input0
  /\ prev = input0
  /\ pc = "filter"
  /\ response = NoResponse
  /\ evItem = Undefined
  /\ evValue = <<>>
  /\ evResult = "none"
  /\ ExtIdle

SpecExample == InitExample /\ [][Next]_vars

\* ------------------------------------------- the second APIFeatures class

\* itemValue == value for an array of texts: two objects are equal only when
\* they are the same object, which a function and the query's array never
\* are; against a primitive the array is taken as its elements joined with ",".
LooseEqArray(a, vals) ==
  IF a.t = "function" THEN FALSE ELSE LooseEq(a, Str(join(vals)))

\* The callback of Object.keys(queryObj).every in the second class: a text
\* with a range operator is compared with parseFloat of the operand and
\* nothing else; an array of values is compared with == only, which joins it
\* with "," unless the record's value is itself an object.
KeyPassesOriginal(item, q, key) ==
  LET itemValue == Get(item, key)
      value == q[key].vals[1]
  IN IF itemValue.t \in {"null", "undefined"} THEN FALSE
     ELSE IF q[key].isArray THEN LooseEqArray(itemValue, q[key].vals)
     ELSE IF OperatorOf(value) # ""
       THEN /\ ~parseFloat(OperandOf(value)).nan
            /\ CompareNumbers(OperatorOf(value), itemValue,
                              parseFloat(OperandOf(value)).n)
     ELSE IF itemValue.t = "string"
       THEN includes(toLowerCase(itemValue.s), toLowerCase(value))
     ELSE StrictEq(itemValue, Str(value)) \/ LooseEq(itemValue, Str(value))

ItemPassesOriginal(item, q) ==
  \A key \in FilterKeys(q) : KeyPassesOriginal(item, q, key)

RECURSIVE FilterSeqOriginal(_, _)
FilterSeqOriginal(d, q) ==
  IF d = <<>> THEN <<>>
  ELSE IF ItemPassesOriginal(Head(d), q)
    THEN <<Head(d)>> \o FilterSeqOriginal(Tail(d), q)
  ELSE FilterSeqOriginal(Tail(d), q)

\* The reserved keys of the queries put to the second class.
OriginalControlPool ==
  { Empty,
    (kPage :> One(<<"2">>)) @@ (kLimit :> One(<<"1">>)),
    (kSort :> One(<<"-", "d">>)) @@ (kFields :> One(<<"n", ",", "d">>)),
    kSort :> Many(<<<<"d">>, <<"-", "s">>>>),
    kFields :> Many(<<<<"d">>, <<"s">>>>) }

\* The filter keys put to the second class: those put to the first, and a
\* repeated parameter for a key every record inherits.
OriginalFilterPool == FilterPool \cup {kConstructor :> Many(<<tObject, tObject>>)}

OriginalQueries == {f @@ c : f \in OriginalFilterPool, c \in OriginalControlPool}

\* new APIFeatures(data, queryString) of the second class
InitOriginal ==
  /\ input0 \in Inputs
  /\ queryString \in OriginalQueries
  /\ input = input0
  /\ data = input0
  /\ aliased = TRUE
  /\ originalData = input0
  /\ ControllerIdle
  /\ ServiceIdle
  /\ HistoryIdle
  /\ filteredData = <<>>
  /\ prev = input0
  /\ pc = "filter"
  /\ response = NoResponse
  /\ evItem = Undefined
  /\ evValue = <<>>
  /\ evResult = "none"

\* filter() of the second class
FilterOriginal ==
  /\ pc = "filter"
  /\ prev' = data
  /\ IF FilterKeys(queryString) # {}
       THEN data' = FilterSeqOriginal(data, queryString) /\ aliased' = FALSE
       ELSE UNCHANGED <<data, aliased>>
  /\ pc' = "sort"
  /\ UNCHANGED <<input0, input, queryString, filteredData, response, evVars, extVars>>

\* sort() of the second class: the text of the first class's sort().
SortOriginal == Sort

\* limitFields() of the second class: the text of the first class's.
LimitFieldsOriginal == LimitFields

\* paginate() of the second class: no snapshot is taken.
PaginateOriginal ==
  /\ pc = "paginate"
  /\ prev' = data
  /\ data' = Slice(data, SkipOf(queryString), SkipOf(queryString) + LimitOf(queryString))
  /\ aliased' = FALSE
  /\ pc' = "respond"
  /\ UNCHANGED <<input0, input, queryString, filteredData, response, evVars, extVars>>

\* getMetadata() of the second class: total is this.originalData.length.
getMetadataOriginal(q, od) ==
  LET page == PageOf(q)
      limit == LimitOf(q)
      total == Len(od)
      totalPages == CeilDiv(total, limit)
  IN [page |-> page,
      limit |-> limit,
      total |-> total,
      totalPages |-> totalPages,
      hasNextPage |-> page < totalPages,
      hasPrevPage |-> page > 1]

\* data and getMetadata() read after the chain of the four calls.
ReadOriginal ==
  /\ pc = "respond"
  /\ response' = [success |-> TRUE, data |-> data,
                  pagination |-> getMetadataOriginal(queryString, originalData)]
  /\ pc' = "done"
  /\ UNCHANGED <<input0, input, queryString, data, aliased, filteredData, prev,
                 evVars, extVars>>

NextOriginal ==
  FilterOriginal \/ SortOriginal \/ LimitFieldsOriginal \/ PaginateOriginal
    \/ ReadOriginal

SpecOriginal == InitOriginal /\ [][NextOriginal]_vars

\* ---------------------------------------------------------- the handlers

\* What a request holds for one input: nothing, a falsy value (the empty
\* text; in a JSON body also 0, false or null), a truthy value that is not
\* of the form the upstream service expects, or a well-formed value.
InputKinds == {"absent", "empty", "malformed", "valid"}

\* What req.body holds for postAlerts: nothing, a JSON object, an array
\* whose elements are no alerts, an array of alerts.
BodyKinds == {"absent", "object", "malformedArray", "array"}

\* !x is false
IsTruthy(kind) == kind \in {"malformed", "valid"}

\* Array.isArray(x)
IsArray(kind) == kind \in {"malformedArray", "array"}

\* The handlers go on to the service when the test of their inputs passes.
getCPUMetricsAccepts(req) ==
  IsTruthy(req.start) /\ IsTruthy(req.end) /\ IsTruthy(req.step)

getJVMMetricsAccepts(req) ==
  IsTruthy(req.start) /\ IsTruthy(req.end) /\ IsTruthy(req.step)

queryAccepts(req) == IsTruthy(req.query)

queryRangeAccepts(req) ==
  IsTruthy(req.query) /\ IsTruthy(req.start) /\ IsTruthy(req.end) /\ IsTruthy(req.step)

getSeriesAccepts(req) == IsTruthy(req.match)

postAlertsAccepts(req) == IsArray(req.body)

\* createSilence reads silence.matchers of req.body before any test: with no
\* parsed body (req.body undefined or null) the read throws a TypeError.
createSilenceThrows(req) == req.body = "absent"

createSilenceAccepts(req) ==
  /\ IsTruthy(req.matchers)
  /\ IsTruthy(req.startsAt)
  /\ IsTruthy(req.endsAt)
  /\ IsTruthy(req.createdBy)
  /\ IsTruthy(req.comment)

Handlers ==
  { "getCPUMetrics", "getJVMMetrics", "query", "queryRange", "getSeries",
    "postAlerts", "createSilence" }

Accepts(h, req) ==
  CASE h = "getCPUMetrics" -> getCPUMetricsAccepts(req)
    [] h = "getJVMMetrics" -> getJVMMetricsAccepts(req)
    [] h = "query" -> queryAccepts(req)
    [] h = "queryRange" -> queryRangeAccepts(req)
    [] h = "getSeries" -> getSeriesAccepts(req)
    [] h = "postAlerts" -> postAlertsAccepts(req)
    [] h = "createSilence" -> createSilenceAccepts(req)

\* The inputs each handler reads from req.query or req.body.
RequestsOf(h) ==
  CASE h \in {"getCPUMetrics", "getJVMMetrics"} -> [{"start", "end", "step"} -> InputKinds]
    [] h = "query" -> [{"query", "time"} -> InputKinds]
    [] h = "queryRange" -> [{"query", "start", "end", "step"} -> InputKinds]
    [] h = "getSeries" -> [{"match", "start", "end"} -> InputKinds]
    [] h = "postAlerts" -> [{"body"} -> BodyKinds]
    [] h = "createSilence" ->
         LET names == {"matchers", "startsAt", "endsAt", "createdBy", "comment"}
         IN {[n \in names \cup {"body"} |-> IF n = "body" THEN "object" ELSE f[n]] :
               f \in [names -> InputKinds]}
              \cup {[n \in names \cup {"body"} |-> "absent"]}

\* A request arrives at one of the handlers.
InitController ==
  /\ handler \in Handlers
  /\ request \in RequestsOf(handler)
  /\ reply = NoReply
  /\ calls = <<>>
  /\ pc = "check"
  /\ OriginalIdle
  /\ ServiceIdle
  /\ HistoryIdle
  /\ PipelineIdle

\* The test of the inputs: res.status(400).json({success: false, ...}) and
\* return, or the call of the service method of the handler's name. When
\* createSilence throws on a request without a body, asyncHandler hands the
\* error on: nothing is sent and no service is called.
CheckInputs ==
  /\ pc = "check"
  /\ IF handler = "createSilence" /\ createSilenceThrows(request)
       THEN /\ pc' = "passedOn"
            /\ UNCHANGED <<reply, calls>>
     ELSE IF Accepts(handler, request)
       THEN /\ calls' = Append(calls, handler)
            /\ pc' = "awaiting"
            /\ UNCHANGED reply
       ELSE /\ reply' = [status |-> 400, success |-> FALSE]
            /\ pc' = "replied"
            /\ UNCHANGED calls
  /\ UNCHANGED <<input0, input, queryString, data, aliased, filteredData, prev,
                 response, evVars, originalData, handler, request, fault, thrown,
                 served, pagedLength>>

\* The service method returned: res.json({success: true, ...}).
ServiceReturns ==
  /\ pc = "awaiting"
  /\ reply' = [status |-> 200, success |-> TRUE]
  /\ pc' = "replied"
  /\ UNCHANGED <<input0, input, queryString, data, aliased, filteredData, prev,
                 response, evVars, originalData, handler, request, calls, fault,
                 thrown, served, pagedLength>>

\* The service method threw: asyncHandler hands the error on, and the
\* handler sends nothing.
ServiceThrows ==
  /\ pc = "awaiting"
  /\ pc' = "passedOn"
  /\ UNCHANGED <<input0, input, queryString, data, aliased, filteredData, prev,
                 response, evVars, extVars>>

NextController == CheckInputs \/ ServiceReturns \/ ServiceThrows

SpecController == InitController /\ [][NextController]_vars

\* ---------------------------------------------------------- the services

\* What an upstream call that fails answers with: an HTTP status, or 0 when
\* the failure has no response (no connection, a timeout, a file error, a
\* TypeError on the shape of the answer).
NoStatus == 0

UpstreamStatuses == {400, 404, 503}

\* The error an axios call rejects with: error.response.status is the
\* status of the answer, and error.response is undefined without an answer.
AxiosError(s) == [kind |-> "axios", status |-> s]

\* The error fs.writeFile, yaml.dump or a TypeError raises: no response.
PlainError == [kind |-> "plain", status |-> NoStatus]

\* new CustomError(message, status): an Error that carries the status it was
\* built with and has no response property.
CustomError(s) == [kind |-> "custom", status |-> s]

\* error.response?.status || 500
StatusOf(error) ==
  IF error.kind = "axios" /\ error.status # NoStatus THEN error.status ELSE 500

\* catch (error) { throw new CustomError(..., error.response?.status || 500) }
Rethrown(error) == CustomError(StatusOf(error))

\* The methods whose try block holds one upstream call.
SingleCallMethods ==
  {"getAlerts", "postAlerts", "getSilences", "deleteSilence", "reloadConfig"}

ServiceMethods ==
  SingleCallMethods \cup {"getClusterMetrics", "updateChannels", "updateAlertConfig"}

GaugeSteps == {"gauge nodes", "gauge dataNodes", "gauge primaryShards", "gauge unassignedShards"}

\* The steps of a method, in the order of its code.
StepsOf(m) ==
  CASE m \in SingleCallMethods -> <<"request">>
    [] m = "getClusterMetrics" ->
         <<"GET health", "gauge nodes", "gauge dataNodes", "gauge primaryShards",
           "gauge unassignedShards", "GET docs">>
    [] m = "updateChannels" -> <<"build", "writeFile", "POST /-/reload">>
    [] m = "updateAlertConfig" -> <<"writeFile", "POST /-/reload">>

\* The steps that are upstream HTTP calls.
IsHttp(step) == step \notin {"build", "writeFile"}

Range(s) == {s[i] : i \in 1..Len(s)}

\* The failures of a run: none, or one step fails, an HTTP call with any
\* status or without an answer and another step without a response.
FaultsOf(m) ==
  {NoFault}
    \cup {[step |-> st, status |-> s] :
            st \in {x \in Range(StepsOf(m)) : IsHttp(x)},
            s \in UpstreamStatuses \cup {NoStatus}}
    \cup {[step |-> st, status |-> NoStatus] :
            st \in {x \in Range(StepsOf(m)) : ~IsHttp(x)}}

\* The error the failing step raises.
Raised(step) == IF IsHttp(step) THEN AxiosError(fault.status) ELSE PlainError

Thrown(error) == [isError |-> TRUE, status |-> error.status]

\* A caller calls a service method.
InitService ==
  /\ handler \in ServiceMethods
  /\ fault \in FaultsOf(handler)
  /\ calls = <<>>
  /\ thrown = NoError
  /\ request = <<>>
  /\ reply = NoReply
  /\ pc = "running"
  /\ OriginalIdle
  /\ HistoryIdle
  /\ PipelineIdle

NextStep == StepsOf(handler)[Len(calls) + 1]

Attempt(step, ok) == [op |-> step, ok |-> ok]

ServiceFrame ==
  UNCHANGED <<input0, input, queryString, data, aliased, filteredData, prev,
              response, evVars, originalData, handler, request, reply, fault,
              served, pagedLength>>

\* A method of one call: the call, and the method's catch.
SingleCall ==
  /\ pc = "running"
  /\ handler \in SingleCallMethods
  /\ IF fault.step = NextStep
       THEN /\ calls' = Append(calls, Attempt(NextStep, FALSE))
            /\ thrown' = Thrown(Rethrown(Raised(NextStep)))
            /\ pc' = "threw"
       ELSE /\ calls' = Append(calls, Attempt(NextStep, TRUE))
            /\ pc' = "returned"
            /\ UNCHANGED thrown
  /\ ServiceFrame

\* getClusterMetrics: the health call, the four getGaugeResponse calls and
\* the docs call. getGaugeResponse has a catch of its own, and what it
\* throws passes through the catch of getClusterMetrics.
GetClusterMetricsStep ==
  /\ pc = "running"
  /\ handler = "getClusterMetrics"
  /\ IF fault.step = NextStep
       THEN /\ calls' = Append(calls, Attempt(NextStep, FALSE))
            /\ thrown' = IF NextStep \in GaugeSteps
                           THEN Thrown(Rethrown(Rethrown(Raised(NextStep))))
                           ELSE Thrown(Rethrown(Raised(NextStep)))
            /\ pc' = "threw"
       ELSE /\ calls' = Append(calls, Attempt(NextStep, TRUE))
            /\ pc' = IF Len(calls) + 1 = Len(StepsOf(handler))
                       THEN "returned" ELSE "running"
            /\ UNCHANGED thrown
  /\ ServiceFrame

\* updateAlertConfig with every failure of the write reported as success of
\* the step.
UpdateAlertConfigStepWriteUnchecked ==
  /\ pc = "running"
  /\ handler = "updateAlertConfig"
  /\ IF fault.step = NextStep /\ NextStep # "writeFile"
       THEN /\ calls' = Append(calls, Attempt(NextStep, FALSE))
            /\ thrown' = Thrown(Rethrown(Raised(NextStep)))
            /\ pc' = "threw"
       ELSE /\ calls' = Append(calls, Attempt(NextStep, fault.step # NextStep))
            /\ pc' = IF Len(calls) + 1 = Len(StepsOf(handler))
                       THEN "returned" ELSE "running"
            /\ UNCHANGED thrown
  /\ ServiceFrame

\* updateAlertConfig: await fs.writeFile, then await client.post("/-/reload"),
\* then return {success: true}; the catch throws a CustomError.
UpdateAlertConfigStep ==
  /\ pc = "running"
  /\ handler = "updateAlertConfig"
  /\ IF fault.step = NextStep
       THEN /\ calls' = Append(calls, Attempt(NextStep, FALSE))
            /\ thrown' = Thrown(Rethrown(Raised(NextStep)))
            /\ pc' = "threw"
       ELSE /\ calls' = Append(calls, Attempt(NextStep, TRUE))
            /\ pc' = IF Len(calls) + 1 = Len(StepsOf(handler))
                       THEN "returned" ELSE "running"
            /\ UNCHANGED thrown
  /\ ServiceFrame

\* updateChannels: the configuration is built, then updateAlertConfig is
\* awaited. What updateAlertConfig throws passes through the catch of
\* updateChannels.
UpdateChannelsStep ==
  /\ pc = "running"
  /\ handler = "updateChannels"
  /\ IF fault.step = NextStep
       THEN /\ calls' = Append(calls, Attempt(NextStep, FALSE))
            /\ thrown' = IF NextStep = "build"
                           THEN Thrown(Rethrown(Raised(NextStep)))
                           ELSE Thrown(Rethrown(Rethrown(Raised(NextStep))))
            /\ pc' = "threw"
       ELSE /\ calls' = Append(calls, Attempt(NextStep, TRUE))
            /\ pc' = IF Len(calls) + 1 = Len(StepsOf(handler))
                       THEN "returned" ELSE "running"
            /\ UNCHANGED thrown
  /\ ServiceFrame

NextService ==
  SingleCall \/ GetClusterMetricsStep \/ UpdateAlertConfigStep \/ UpdateChannelsStep

SpecService == InitService /\ [][NextService]_vars

\* ------------------------------------------------- the pages, one by one

\* The decimal text of a page number, as a client writes it in the URL.
RECURSIVE DecimalText(_)
DecimalText(n) ==
  LET digit == <<"0", "1", "2", "3", "4", "5", "6", "7", "8", "9">>[(n % 10) + 1]
  IN IF n < 10 THEN <<digit>> ELSE Append(DecimalText(n \div 10), digit)

\* The filter conditions of the requests for page after page.
PageFilterPool ==
  { Empty,
    fSeverity :> One(tCrit),
    fSeverity :> One(tWarn \o <<",">> \o tCrit),
    fDuration :> One(<<"g", "t", "e", ":", "5">>) }

\* The reserved keys of the first request: page 1 and an integer limit of at
\* least 1.
PageControlPool ==
  { (kPage :> One(<<"1">>)) @@ (kLimit :> One(<<"1">>)),
    (kPage :> One(<<"1">>)) @@ (kLimit :> One(<<"2">>)) @@ (kSort :> One(<<"-", "d">>)),
    (kPage :> One(<<"1">>)) @@ (kLimit :> One(<<"1">>)) @@ (kSort :> One(<<"s">>))
      @@ (kFields :> One(<<"n", ",", "d">>)),
    (kPage :> One(<<"1">>)) @@ (kLimit :> One(<<"2">>)) @@ (kFields :> One(<<"s">>)) }

PageQueries == {f @@ c : f \in PageFilterPool, c \in PageControlPool}

\* One call of prometheusService.getRulesProcessed() and the rules it
\* returned.
RulesCall(rules) == [op |-> "getRulesProcessed", rules |-> rules]

\* A rule that upstream may hold at a later request and did not hold before.
NewRule ==
  (fName :> Str(<<"N", "e", "w">>)) @@ (fSeverity :> Str(tCrit)) @@ (fDuration :> Num(3))

\* What upstream holds when the rules are fetched again: the rules as they
\* were fetched last, or without the first of them, or with a new rule put
\* before them.
Refetched(rules) ==
  {rules}
    \cup (IF rules # <<>> THEN {Tail(rules)} ELSE {})
    \cup (IF Len(rules) < MaxLen THEN {<<NewRule>> \o rules} ELSE {})

\* The first request: the service has returned the rules, and new
\* APIFeatures(allRules, req.query) is made with page=1.
InitPages ==
  /\ input0 \in Inputs
  /\ queryString \in PageQueries
  /\ input = input0
  /\ data = input0
  /\ aliased = TRUE
  /\ filteredData = input0
  /\ prev = input0
  /\ pc = "filter"
  /\ response = NoResponse
  /\ evItem = Undefined
  /\ evValue = <<>>
  /\ evResult = "none"
  /\ OriginalIdle
  /\ handler = "getRulesProcessed"
  /\ request = <<>>
  /\ reply = NoReply
  /\ calls = <<RulesCall(input0)>>
  /\ ServiceIdle
  /\ HistoryIdle

\* The response is sent and the handler has returned. While the response
\* says hasNextPage the client asks for the page after it, with the same
\* query but for page: the handler runs again, calls
\* prometheusService.getRulesProcessed() and awaits its answer.
NextRequest ==
  /\ pc = "done"
  /\ served' = Append(served, response.data)
  /\ IF response.pagination.hasNextPage
       THEN /\ queryString' =
                 [queryString EXCEPT
                    ![kPage] = One(DecimalText(response.pagination.page + 1))]
            /\ response' = NoResponse
            /\ pc' = "awaitRules"
       ELSE /\ pc' = "allServed"
            /\ UNCHANGED <<queryString, response>>
  /\ UNCHANGED <<input0, input, data, aliased, filteredData, prev, evVars,
                 originalData, handler, request, reply, calls, fault, thrown,
                 pagedLength>>

\* The service answers: it has fetched the rules from upstream again, and
\* they are what upstream holds now. allRules is the array it returns.
ServiceAnswers ==
  /\ pc = "awaitRules"
  /\ \E rules \in Refetched(calls[Len(calls)].rules) :
       /\ calls' = Append(calls, RulesCall(rules))
       /\ input0' = rules
       /\ input' = rules
  /\ pc' = "construct"
  /\ UNCHANGED <<queryString, data, aliased, filteredData, prev, response, evVars,
                 originalData, handler, request, reply, fault, thrown, served,
                 pagedLength>>

\* The service fails: getRulesProcessed() throws a CustomError, which
\* asyncHandler passes to next; no page is sent.
ServiceFails ==
  /\ pc = "awaitRules"
  /\ pc' = "threw"
  /\ UNCHANGED <<input0, input, queryString, data, aliased, filteredData, prev,
                 response, evVars, extVars>>

\* new APIFeatures(allRules, req.query)
Construct ==
  /\ pc = "construct"
  /\ data' = input
  /\ aliased' = TRUE
  /\ filteredData' = input
  /\ prev' = input
  /\ pc' = "filter"
  /\ UNCHANGED <<input0, input, queryString, response, evVars, extVars>>

NextPages == Next \/ NextRequest \/ ServiceAnswers \/ ServiceFails \/ Construct

SpecPages == InitPages /\ [][NextPages]_vars

\* ------------------------------------------------- the calls in any order

\* The most calls made on one object.
MaxCalls == 4

AnyRecordPool ==
  { (fName :> Str(<<"C", "P", "U">>)) @@ (fSeverity :> Str(tCrit)) @@ (fDuration :> Num(8)),
    (fName :> Str(<<"M", "e", "m">>)) @@ (fSeverity :> Str(tWarn)) @@ (fDuration :> Num(15)),
    (fSeverity :> Str(tCrit)) @@ (fDuration :> Null) @@ (kHasOwnProperty :> Str(<<"a">>)) }

AnyInputs == SeqsUpTo(AnyRecordPool, MaxLen)

AnyQueries ==
  { (fSeverity :> One(tCrit)) @@ (kLimit :> One(<<"1">>)),
    (fSeverity :> One(tCrit)) @@ (kPage :> One(<<"1">>)) @@ (kLimit :> One(<<"1">>))
      @@ (kSort :> One(<<"-", "d">>)) @@ (kFields :> One(<<"n", ",", "d">>)),
    (kPage :> One(<<"2">>)) @@ (kLimit :> One(<<"2">>)) @@ (kSort :> One(<<"d">>)),
    (kSort :> Many(<<<<"d">>, <<"-", "s">>>>)) @@ (kFields :> Many(<<<<"d">>, <<"s">>>>)) }

\* new APIFeatures(data, query), with no call made yet.
InitAnyOrder ==
  /\ input0 \in AnyInputs
  /\ queryString \in AnyQueries
  /\ input = input0
  /\ data = input0
  /\ aliased = TRUE
  /\ filteredData = input0
  /\ prev = input0
  /\ pc = "any"
  /\ response = NoResponse
  /\ evItem = Undefined
  /\ evValue = <<>>
  /\ evResult = "none"
  /\ OriginalIdle
  /\ handler = "none"
  /\ request = <<>>
  /\ reply = NoReply
  /\ calls = <<>>
  /\ ServiceIdle
  /\ served = <<>>
  /\ pagedLength = Len(input0)

\* The object takes one more call.
Callable == pc = "any" /\ Len(calls) < MaxCalls

AnyOrderFrame ==
  UNCHANGED <<input0, queryString, pc, evVars, originalData, handler, request,
              reply, fault, thrown, served>>

\* A mutant of FilterAnyOrder: filter() saves what it kept as the filtered
\* data.
FilterAnyOrderSaves ==
  /\ Callable
  /\ calls' = Append(calls, "filter")
  /\ prev' = data
  /\ IF FilterKeys(queryString) # {}
       THEN data' = FilterSeq(data, queryString) /\ aliased' = FALSE
       ELSE UNCHANGED <<data, aliased>>
  /\ filteredData' = data'
  /\ UNCHANGED <<input, response, pagedLength>>
  /\ AnyOrderFrame

\* filter(), whatever was called before it.
FilterAnyOrder ==
  /\ Callable
  /\ calls' = Append(calls, "filter")
  /\ prev' = data
  /\ IF FilterKeys(queryString) # {}
       THEN data' = FilterSeq(data, queryString) /\ aliased' = FALSE
       ELSE UNCHANGED <<data, aliased>>
  /\ UNCHANGED <<input, filteredData, response, pagedLength>>
  /\ AnyOrderFrame

\* sort(), whatever was called before it. With an array-valued sort the call
\* throws before it touches the object, and the caller may go on.
SortAnyOrder ==
  /\ Callable
  /\ calls' = Append(calls, "sort")
  /\ prev' = data
  /\ IF ~Truthy(queryString, kSort) \/ queryString[kSort].isArray
       THEN UNCHANGED <<data, input>>
       ELSE /\ data' = SortArray(data, split(queryString[kSort].vals[1]))
            /\ input' = InputAfterSort(input, data', aliased)
  /\ UNCHANGED <<aliased, filteredData, response, pagedLength>>
  /\ AnyOrderFrame

\* limitFields(), whatever was called before it. An array-valued fields
\* throws likewise, and so does a record that owns a key hasOwnProperty.
LimitFieldsAnyOrder ==
  /\ Callable
  /\ calls' = Append(calls, "limitFields")
  /\ prev' = data
  /\ IF ~Truthy(queryString, kFields) \/ queryString[kFields].isArray
       THEN UNCHANGED <<data, aliased>>
     ELSE IF ProjectSeq(data, split(queryString[kFields].vals[1])).threw
       THEN UNCHANGED <<data, aliased>>
     ELSE /\ data' = ProjectSeq(data, split(queryString[kFields].vals[1])).data
          /\ aliased' = FALSE
  /\ UNCHANGED <<input, filteredData, response, pagedLength>>
  /\ AnyOrderFrame

\* paginate(), whatever was called before it.
PaginateAnyOrder ==
  /\ Callable
  /\ calls' = Append(calls, "paginate")
  /\ prev' = data
  /\ pagedLength' = Len(data)
  /\ filteredData' = SavedAtPaginate(data, filteredData)
  /\ data' = Slice(data, SkipOf(queryString), SkipOf(queryString) + LimitOf(queryString))
  /\ aliased' = FALSE
  /\ UNCHANGED <<input, response>>
  /\ AnyOrderFrame

\* getMetadata(): what it returns is kept in response.pagination.
GetMetadataAnyOrder ==
  /\ Callable
  /\ calls' = Append(calls, "getMetadata")
  /\ response' = [success |-> TRUE, data |-> data,
                  pagination |-> getMetadata(queryString, filteredData)]
  /\ UNCHANGED <<input, data, aliased, filteredData, prev, pagedLength>>
  /\ AnyOrderFrame

NextAnyOrder ==
  FilterAnyOrder \/ SortAnyOrder \/ LimitFieldsAnyOrder \/ PaginateAnyOrder
    \/ GetMetadataAnyOrder

SpecAnyOrder == InitAnyOrder /\ [][NextAnyOrder]_vars

\* ----------------------------------------------------------------- claims

Absent(v) == v.t \in {"null", "undefined"}

\* The query with the single key k and the single raw value v.
SingleQuery(k, v) == k :> One(v)

\* The number of records of the constructor's input that pass every filter key.
PassingCount ==
  Cardinality({i \in 1..Len(input0) :
                 \A k \in FilterKeys(queryString) : KeyPasses(input0[i], queryString, k)})

\* C1: after filter, sort, limitFields, paginate, the total of the metadata
\* is the number of input records that passed the filter, whatever page and
\* limit are.
C1_TotalIsFilteredCount ==
  pc = "done" => response.pagination.total = PassingCount

C1_Witness ==
  /\ pc = "done"
  /\ response.pagination.total > 0
  /\ response.pagination.total < Len(input0)
  /\ Len(response.data) < response.pagination.total

\* C2: the array passed to the constructor holds the same records in the
\* same order at every point of the pipeline.
C2_InputUntouched == input = input0

\* C3: the page and the limit of the metadata are both at least 1.
C3_PageAndLimitAtLeastOne ==
  pc = "done" => response.pagination.page >= 1 /\ response.pagination.limit >= 1

\* The operand of a range operator that is neither a timestamp nor a number.
MalformedOperand(v) ==
  /\ OperatorOf(v) # ""
  /\ DateOfText(OperandOf(v)).nan
  /\ parseFloat(OperandOf(v)).nan

\* C4: a range operator whose operand is neither a timestamp nor a number
\* makes evaluateCondition return false for every field value.
C4_MalformedOperandIsFalse ==
  (pc = "evaluated" /\ MalformedOperand(evValue)) => evResult = "false"

\* C5: no stage of the pipeline throws.
C5_NoError == pc # "threw"

\* C6: filter() leaves exactly the records that pass every non-reserved key,
\* in their original order.
C6_FilterKeepsExactlyThePassing ==
  pc = "sort" =>
    data = SelectSeq(prev, LAMBDA r :
                             \A k \in FilterKeys(queryString) : KeyPasses(r, queryString, k))

C6_Witness ==
  /\ pc = "sort"
  /\ Cardinality(FilterKeys(queryString)) = 2
  /\ Len(data) = 2
  /\ Len(prev) = 3
  /\ \E i \in 1..Len(prev) :
       \E k \in FilterKeys(queryString) : KeyPasses(prev[i], queryString, k)
         /\ ~ItemPasses(prev[i], queryString)

\* C7: with one key given two raw values, filter() keeps exactly the records
\* kept for the first value alone and for the second value alone.
C7_RangeAndLaw ==
  \A k \in FilterKeys(queryString) :
    (/\ pc = "sort"
     /\ FilterKeys(queryString) = {k}
     /\ queryString[k].isArray
     /\ Len(queryString[k].vals) = 2)
    => data = SelectSeq(prev, LAMBDA r :
                /\ ItemPasses(r, SingleQuery(k, queryString[k].vals[1]))
                /\ ItemPasses(r, SingleQuery(k, queryString[k].vals[2])))

C7_Witness ==
  \E k \in FilterKeys(queryString) :
    /\ pc = "sort"
    /\ FilterKeys(queryString) = {k}
    /\ queryString[k].isArray
    /\ Len(queryString[k].vals) = 2
    /\ data # <<>>
    /\ \E i \in 1..Len(prev) :
         /\ ItemPasses(prev[i], SingleQuery(k, queryString[k].vals[1]))
         /\ ~ItemPasses(prev[i], SingleQuery(k, queryString[k].vals[2]))
    /\ \E i \in 1..Len(prev) :
         /\ ~ItemPasses(prev[i], SingleQuery(k, queryString[k].vals[1]))
         /\ ItemPasses(prev[i], SingleQuery(k, queryString[k].vals[2]))

\* The raw value v is "a,b" with a and b non-empty, comma-free and without
\* surrounding white space.
IsPair(v) ==
  /\ Len(split(v)) = 2
  /\ \A i \in 1..2 : split(v)[i] # <<>> /\ trim(split(v)[i]) = split(v)[i]

\* The records of prev kept for a alone or for b alone, for the pair "a,b"
\* given for key k.
UnionOfSingles(k, v) ==
  SelectSeq(prev, LAMBDA r :
    \/ ItemPasses(r, SingleQuery(k, split(v)[1]))
    \/ ItemPasses(r, SingleQuery(k, split(v)[2])))

\* C8 as claimed: for every pair "a,b", filter() keeps exactly the records
\* kept for a alone or for b alone.
C8_OrLawForEveryPair ==
  \A k \in FilterKeys(queryString) :
    (/\ pc = "sort"
     /\ FilterKeys(queryString) = {k}
     /\ ~queryString[k].isArray
     /\ IsPair(queryString[k].vals[1]))
    => data = UnionOfSingles(k, queryString[k].vals[1])

\* C8 as amended: the same, for the pairs in which neither a, nor b, nor
\* "a,b" as a whole is a range operator (a raw value that starts as a range
\* operator is read as one, comma included: "lt:" alone is none, "lt:,5" is).
C8_OrLawWithoutRangeOperators ==
  \A k \in FilterKeys(queryString) :
    (/\ pc = "sort"
     /\ FilterKeys(queryString) = {k}
     /\ ~queryString[k].isArray
     /\ IsPair(queryString[k].vals[1])
     /\ OperatorOf(queryString[k].vals[1]) = ""
     /\ \A i \in 1..2 : OperatorOf(split(queryString[k].vals[1])[i]) = "")
    => data = UnionOfSingles(k, queryString[k].vals[1])

C8_Witness ==
  \E k \in FilterKeys(queryString) :
    /\ pc = "sort"
    /\ FilterKeys(queryString) = {k}
    /\ ~queryString[k].isArray
    /\ IsPair(queryString[k].vals[1])
    /\ OperatorOf(queryString[k].vals[1]) = ""
    /\ \A i \in 1..2 : OperatorOf(split(queryString[k].vals[1])[i]) = ""
    /\ Len(data) = 2
    /\ Len(prev) = 3
    /\ ~ItemPasses(data[1], SingleQuery(k, split(queryString[k].vals[1])[1]))
    /\ ~ItemPasses(data[2], SingleQuery(k, split(queryString[k].vals[1])[2]))

\* C9: no record left by filter() has a null or undefined value for a filter
\* key; the value of a record for a key is what the record itself holds for
\* it, undefined when it holds nothing.
C9_AbsentFieldExcluded ==
  pc = "sort" =>
    \A i \in 1..Len(data) :
      \A k \in FilterKeys(queryString) : ~Absent(OwnValue(data[i], k))

\* C10: paginate() leaves the elements of the sequence it was given at the
\* positions (page-1)*limit up to (page-1)*limit+limit, clipped to the
\* sequence, for the page and limit of the metadata.
C10_PageIsClippedRange ==
  pc = "respond" =>
    LET m == getMetadata(queryString, filteredData)
        from == (m.page - 1) * m.limit
        lo == IF from < 0 THEN 0 ELSE from
        hi == IF from + m.limit > Len(prev) THEN Len(prev) ELSE from + m.limit
    IN data = SubSeq(prev, lo + 1, hi)

\* C11: when the page asked for is beyond the last page, the page returned
\* is empty, the total is still the filtered count and hasNextPage is false.
C11_PageBeyondLastIsEmpty ==
  (pc = "done" /\ response.pagination.page > response.pagination.totalPages)
    => /\ response.data = <<>>
       /\ response.pagination.total = PassingCount
       /\ ~response.pagination.hasNextPage

\* C12: totalPages is the least integer not below total / limit, hasNextPage
\* is page < totalPages and hasPrevPage is page > 1, for the page, limit and
\* total of the same metadata.
C12_MetadataArithmetic ==
  pc = "done" =>
    LET m == response.pagination IN
      /\ IF m.limit > 0
           THEN m.totalPages * m.limit >= m.total
                  /\ (m.totalPages - 1) * m.limit < m.total
           ELSE m.totalPages * m.limit <= m.total
                  /\ (m.totalPages - 1) * m.limit > m.total
      /\ m.hasNextPage <=> m.page < m.totalPages
      /\ m.hasPrevPage <=> m.page > 1

C12_Witness ==
  /\ pc = "done"
  /\ response.pagination.limit = 2
  /\ response.pagination.total = 3
  /\ response.pagination.totalPages = 2
  /\ response.pagination.hasNextPage
  /\ ~response.pagination.hasPrevPage

\* The sort keys of the query, in order, each with its direction.
SortFieldsOf(q) == split(q[kSort].vals[1])

FieldNameOf(field) == IF startsWith(field, <<"-">>) THEN substring(field, 1) ELSE field

\* sort() has run with a text-valued sort parameter.
Sorted == pc = "limitFields" /\ Truthy(queryString, kSort) /\ ~queryString[kSort].isArray

\* The values are defined and totally ordered: of any two, exactly one of
\* "less", "identical", "greater" holds, and "less" is transitive.
MutuallyComparable(vs) ==
  /\ \A v \in vs : v # Undefined
  /\ \A v, w \in vs :
       \/ StrictEq(v, w) /\ ~JsLess(v, w) /\ ~JsLess(w, v)
       \/ ~StrictEq(v, w) /\ (JsLess(v, w) # JsLess(w, v))
  /\ \A u, v, w \in vs : (JsLess(u, v) /\ JsLess(v, w)) => JsLess(u, w)

ComparableOnEveryKey(d, fields) ==
  \A k \in 1..Len(fields) :
    MutuallyComparable({OwnValue(d[i], FieldNameOf(fields[k])) : i \in 1..Len(d)})

\* x is ordered before y by the earliest key on which the two differ.
RECURSIVE OrderedBefore(_, _, _)
OrderedBefore(x, y, fields) ==
  IF fields = <<>> THEN FALSE
  ELSE
    LET name == FieldNameOf(Head(fields))
        xv == Get(x, name)
        yv == Get(y, name)
    IN IF StrictEq(xv, yv) THEN OrderedBefore(x, y, Tail(fields))
       ELSE IF startsWith(Head(fields), <<"-">>) THEN JsLess(yv, xv)
       ELSE JsLess(xv, yv)

Occurrences(d, r) == Cardinality({i \in 1..Len(d) : d[i] = r})

IsPermutation(d, e) ==
  /\ Len(d) = Len(e)
  /\ \A i \in 1..Len(e) : Occurrences(d, e[i]) = Occurrences(e, e[i])

\* C13: when every record has a defined, mutually comparable value for every
\* sort key, the output of sort() is a permutation of its input, and no
\* record stands behind one it is ordered before by the earliest differing key.
C13_SortedByEarliestDifferingKey ==
  (Sorted /\ ComparableOnEveryKey(prev, SortFieldsOf(queryString)))
    => /\ IsPermutation(data, prev)
       /\ \A i, j \in 1..Len(data) :
            i < j => ~OrderedBefore(data[j], data[i], SortFieldsOf(queryString))

\* Four records are sorted by d ascending then s descending; the input had a
\* later record ordered before an earlier one by the second key only.
C13_Witness ==
  /\ Sorted /\ ComparableOnEveryKey(prev, SortFieldsOf(queryString))
  /\ SortFieldsOf(queryString) = <<<<"d">>, <<"-", "s">>>>
  /\ Len(prev) = 4
  /\ data # prev
  /\ \E i, j \in 1..4 :
       /\ i < j
       /\ StrictEq(Get(prev[i], fDuration), Get(prev[j], fDuration))
       /\ OrderedBefore(prev[j], prev[i], SortFieldsOf(queryString))
  /\ \E i \in 1..3 : ~StrictEq(Get(data[i], fDuration), Get(data[i + 1], fDuration))

EqualOnEveryKey(x, y, fields) ==
  \A k \in 1..Len(fields) :
    StrictEq(Get(x, FieldNameOf(fields[k])), Get(y, FieldNameOf(fields[k])))

\* The records of d that equal x on every sort key, in their order in d.
EqualsOf(d, x, fields) ==
  LET Same(r) == EqualOnEveryKey(r, x, fields) IN SelectSeq(d, Same)

\* C14: sort() is stable: the records that are equal on every sort key stand
\* in the output in the order they had in the input of sort().
C14_SortIsStable ==
  Sorted =>
    \A i \in 1..Len(prev) :
      EqualsOf(data, prev[i], SortFieldsOf(queryString))
        = EqualsOf(prev, prev[i], SortFieldsOf(queryString))

\* limitFields() has run with a text-valued fields parameter.
Projected == pc = "paginate" /\ Truthy(queryString, kFields) /\ ~queryString[kFields].isArray

\* The field names asked for.
Requested(q) ==
  {split(q[kFields].vals[1])[i] : i \in 1..Len(split(q[kFields].vals[1]))}

\* C15: with fields present, each record limitFields() produces has exactly
\* the requested names its source record owns, each with the source's value;
\* a requested name the source lacks is left out and raises no error.
C15_ProjectionKeepsOwnedRequested ==
  /\ Projected =>
       /\ Len(data) = Len(prev)
       /\ \A i \in 1..Len(data) :
            /\ DOMAIN data[i] = DOMAIN prev[i] \cap Requested(queryString)
            /\ \A f \in DOMAIN data[i] : data[i][f] = prev[i][f]
  /\ (pc = "threw" /\ Truthy(queryString, kFields) /\ ~queryString[kFields].isArray)
       => (Truthy(queryString, kSort) /\ queryString[kSort].isArray)

\* C16: projection is idempotent: limitFields() applied a second time with
\* the same fields list leaves the records as the first application left them.
C16_ProjectionIdempotent ==
  pc = "limitedTwice" => data = prev

\* The second application followed a first one that dropped fields of a
\* record and kept others.
C16_Witness ==
  /\ pc = "limitedTwice"
  /\ Truthy(queryString, kFields)
  /\ Len(data) = Len(input0)
  /\ \E i \in 1..Len(data) :
       DOMAIN data[i] # {} /\ DOMAIN data[i] # DOMAIN input0[i]

\* The sign of the difference of two instants.
InstantOrder(a, b) ==
  IF a.day # b.day THEN (IF a.day < b.day THEN -1 ELSE 1)
  ELSE IF a.ms # b.ms THEN (IF a.ms < b.ms THEN -1 ELSE 1)
  ELSE 0

\* The sign of the difference of two integers.
IntegerOrder(m, n) == IF m < n THEN -1 ELSE IF m > n THEN 1 ELSE 0

\* What an operator asks of the sign of (field value - operand).
Under(op, sign) ==
  CASE op = "gte" -> sign >= 0
    [] op = "gt" -> sign > 0
    [] op = "lte" -> sign <= 0
    [] op = "lt" -> sign < 0

\* C17: for a raw value gte:x, gt:x, lte:x or lt:x, when x and the field
\* value both parse as timestamps the condition is the comparison of the two
\* instants under the operator; otherwise, when x parses as a number, it is
\* the numeric comparison of the field value with x.
C17_RangeComparesInstantsElseNumbers ==
  (pc = "evaluated" /\ OperatorOf(evValue) # "") =>
    LET op == OperatorOf(evValue)
        x == OperandOf(evValue)
        xInstant == DateOfText(x)
        fvInstant == DateOf(evItem)
        xNumber == parseFloat(x)
        fvNumber == ToNumber(evItem)
    IN IF ~xInstant.nan /\ ~fvInstant.nan
         THEN (evResult = "true") <=> Under(op, InstantOrder(fvInstant, xInstant))
       ELSE ~xNumber.nan =>
              ((evResult = "true") <=>
                 (~fvNumber.nan /\ Under(op, IntegerOrder(fvNumber.n, xNumber.n))))

\* gte:5 met the number 8: both are timestamps (8 ms after the epoch, and
\* May 2001), the instants were compared, and the condition is false though
\* 8 >= 5.
C17_Witness ==
  /\ pc = "evaluated"
  /\ evValue = pGte \o <<"5">>
  /\ evItem = Num(8)
  /\ ~DateOfText(OperandOf(evValue)).nan /\ ~DateOf(evItem).nan
  /\ evResult = "false"

\* text contains part, ignoring case.
ContainsIgnoringCase(text, part) ==
  \E k \in 0..(Len(text) - Len(part)) :
    \A i \in 1..Len(part) : LowerChar(text[k + i]) = LowerChar(part[i])

\* A number or boolean is loosely equal to a text when the text converts to
\* the same number, a function when the text is the function's.
LooselyEqualsText(v, text) ==
  \/ /\ v.t \in {"number", "boolean"}
     /\ ~NumberOfText(text).nan
     /\ NumberOfText(text).n = v.n
  \/ /\ v.t = "function"
     /\ v.s = text

\* C18: for a single raw value that is neither a range operator nor a comma
\* list, a text field value satisfies the condition exactly when it contains
\* the raw value ignoring case, and any other field value exactly when the
\* two are loosely equal.
C18_DefaultIsSubstringOrLooseEquality ==
  (pc = "evaluated" /\ OperatorOf(evValue) = "" /\ ~includes(evValue, <<",">>)) =>
    IF evItem.t = "string"
      THEN (evResult = "true") <=> ContainsIgnoringCase(evItem.s, evValue)
      ELSE (evResult = "true") <=> LooselyEqualsText(evItem, evValue)

\* The number 8 met the text "8" and the condition is true.
C18_Witness ==
  /\ pc = "evaluated"
  /\ evItem = Num(8)
  /\ evValue = <<"8">>
  /\ evResult = "true"

\* The QuerySpec without page, sort, limit and fields.
WithoutReserved(q) ==
  [k \in DOMAIN q \ {kPage, kSort, kLimit, kFields} |-> q[k]]

\* What filter() leaves of d under q.
FilterOutcome(d, q) == IF FilterKeys(q) # {} THEN FilterSeq(d, q) ELSE d

\* C19: page, sort, limit and fields are never filter conditions: filter()
\* keeps the records it keeps for the QuerySpec without those four keys, and
\* keeps every record when the QuerySpec holds no other key.
C19_ReservedKeysDoNotFilter ==
  pc = "sort" =>
    /\ data = FilterOutcome(prev, WithoutReserved(queryString))
    /\ DOMAIN WithoutReserved(queryString) = {} => data = prev

\* A QuerySpec with page, limit, sort and a filter key: filter() dropped some
\* records and kept others.
C19_Witness ==
  /\ pc = "sort"
  /\ {kPage, kLimit, kSort} \subseteq DOMAIN queryString
  /\ DOMAIN WithoutReserved(queryString) # {}
  /\ data # <<>>
  /\ Len(data) < Len(prev)

\* C20: on the example's three records (durations 8, 3 and 12) with the
\* example's query, the pipeline returns exactly the record named "CPU Usage"
\* and total is 1.
C20_ExampleReturnsCpuUsage ==
  (pc = "done" /\ input0 = ExampleInput /\ queryString = ExampleQuery)
    => /\ response.data = <<CpuUsage>>
       /\ response.pagination.total = 1

\* The stages applied to d in the order filter, sort, limitFields, paginate,
\* each once: the sequence before paginate and the page.
StagesInOrder(d, q) ==
  LET filtered == FilterOutcome(d, q)
      sorted == IF Truthy(q, kSort)
                  THEN SortArray(filtered, split(q[kSort].vals[1]))
                  ELSE filtered
      projected == IF Truthy(q, kFields)
                     THEN ProjectSeq(sorted, split(q[kFields].vals[1])).data
                     ELSE sorted
  IN [filtered |-> filtered,
      sorted |-> sorted,
      projected |-> projected,
      page |-> Slice(projected, SkipOf(q), SkipOf(q) + LimitOf(q))]

\* One step of the handler goes from a stage to the stage after it, and only
\* the step after paginate writes the response.
StepInOrder ==
  /\ <<pc, pc'>> \in { <<"filter", "sort">>, <<"sort", "limitFields">>,
                        <<"limitFields", "paginate">>, <<"paginate", "respond">>,
                        <<"respond", "done">>, <<"sort", "threw">>,
                        <<"limitFields", "threw">> }
  /\ response' # response => pc = "respond"

\* C21: getRulesProcessed applies filter, sort, limitFields and paginate in
\* that order, each once, reads data and metadata only after paginate, and
\* responds with success true, the page as data and the metadata as pagination.
C21_HandlerAppliesStagesInOrder ==
  /\ [][StepInOrder]_vars
  /\ [](pc = "done" =>
          response = [success |-> TRUE,
                      data |-> StagesInOrder(input0, queryString).page,
                      pagination |->
                        getMetadata(queryString,
                                    StagesInOrder(input0, queryString).projected)])

\* A response to a query with a filter key, sort, fields, page and limit:
\* filter dropped a record, sort changed the order, limitFields dropped a
\* field, and the page is the second of two.
C21_Witness ==
  /\ pc = "done"
  /\ {kPage, kLimit, kSort, kFields} \subseteq DOMAIN queryString
  /\ Len(input0) = 3
  /\ Len(StagesInOrder(input0, queryString).filtered) = 2
  /\ StagesInOrder(input0, queryString).sorted
       # StagesInOrder(input0, queryString).filtered
  /\ StagesInOrder(input0, queryString).projected
       # StagesInOrder(input0, queryString).sorted
  /\ response.pagination.page = 2
  /\ response.pagination.totalPages = 2
  /\ Len(response.data) = 1
  /\ response.data[1] = StagesInOrder(input0, queryString).projected[2]

\* C22: when some records lack a sort key, the records that have it still
\* stand in the output of sort() in that key's order relative to one another.
C22_RecordsWithKeyStayOrdered ==
  Sorted =>
    LET first == <<Head(SortFieldsOf(queryString))>>
        name == FieldNameOf(Head(SortFieldsOf(queryString)))
    IN \A i, j \in 1..Len(data) :
         (i < j /\ name \in DOMAIN data[i] /\ name \in DOMAIN data[j])
           => ~OrderedBefore(data[j], data[i], first)

\* C23: a stage whose parameter is absent changes nothing: sort() with no
\* sort value leaves the sequence as it was, limitFields() with no fields
\* value leaves every record with all its fields, and the number of records
\* stays.
C23_AbsentParameterChangesNothing ==
  /\ (pc = "limitFields" /\ ~Truthy(queryString, kSort)) => data = prev
  /\ (pc = "paginate" /\ ~Truthy(queryString, kFields)) => data = prev
  /\ (pc = "paginate" /\ ~Truthy(queryString, kSort) /\ ~Truthy(queryString, kFields))
       => data = FilterOutcome(input0, queryString)

\* sort() and limitFields() have both run without their parameters on three
\* records that are not in the order of any key and have several fields.
C23_Witness ==
  /\ pc = "paginate"
  /\ kSort \notin DOMAIN queryString
  /\ kFields \notin DOMAIN queryString
  /\ Len(data) = 3
  /\ data = input0
  /\ JsLess(Get(data[2], fDuration), Get(data[1], fDuration))
  /\ JsLess(Get(data[2], fDuration), Get(data[3], fDuration))
  /\ \A i \in 1..3 : Cardinality(DOMAIN data[i]) = 3

\* C24: in the second APIFeatures class, after filter().sort().limitFields()
\* .paginate(), getMetadata().total is the number of records that passed
\* filter().
C24_OriginalTotalIsFilteredCount ==
  pc = "done" =>
    response.pagination.total
      = Len(IF FilterKeys(queryString) # {}
              THEN FilterSeqOriginal(input0, queryString)
              ELSE input0)

\* The inputs a handler requires.
RequiredOf(h) ==
  CASE h \in {"getCPUMetrics", "getJVMMetrics"} -> {"start", "end", "step"}
    [] h = "query" -> {"query"}
    [] h = "queryRange" -> {"query", "start", "end", "step"}
    [] h = "getSeries" -> {"match"}
    [] h = "postAlerts" -> {"body"}
    [] h = "createSilence" -> {"matchers", "startsAt", "endsAt", "createdBy", "comment"}

\* A required input is missing, or is not of the form it should have.
MissingOrMalformed ==
  \E n \in RequiredOf(handler) : request[n] \notin {"valid", "array"}

Refused == reply = [status |-> 400, success |-> FALSE] /\ calls = <<>>

\* C25: a handler that checks required inputs answers 400 with success false
\* and calls no service whenever a required input is missing or malformed;
\* the service is called only after the check has passed.
C25_MissingOrMalformedRefused ==
  /\ (pc # "check" /\ MissingOrMalformed) => Refused
  /\ calls # <<>> => (pc # "check" /\ ~MissingOrMalformed)

\* What a run has attempted so far.
Attempted(step, ok) == \E i \in 1..Len(calls) : calls[i] = Attempt(step, ok)

\* C26: in updateAlertConfig the reload request is sent only after the file
\* has been written: a reload request in the run has a successful write
\* before it, a failed write leaves the run without a reload request and
\* with a CustomError thrown, and the method returns only after a successful
\* write and a successful reload.
C26_ReloadOnlyAfterWrite ==
  handler = "updateAlertConfig" =>
    /\ \A i \in 1..Len(calls) :
         calls[i].op = "POST /-/reload" =>
           \E j \in 1..(i - 1) : calls[j] = Attempt("writeFile", TRUE)
    /\ Attempted("writeFile", FALSE) =>
         /\ ~Attempted("POST /-/reload", TRUE)
         /\ ~Attempted("POST /-/reload", FALSE)
         /\ pc = "threw"
         /\ thrown.isError
    /\ pc = "returned" =>
         /\ Attempted("writeFile", TRUE)
         /\ Attempted("POST /-/reload", TRUE)
         /\ ~thrown.isError

C26_Witness ==
  /\ handler = "updateAlertConfig"
  /\ fault.step = "writeFile"
  /\ pc = "threw"
  /\ calls = <<Attempt("writeFile", FALSE)>>
  /\ thrown.isError

\* C30: when an upstream HTTP call of a service method fails with response
\* status s, the CustomError that reaches the caller carries s, and it carries
\* 500 only when the failure had no response status, also when the failing
\* call is made by a helper that the method wraps.
C30_UpstreamStatusReachesCaller ==
  (pc = "threw" /\ IsHttp(fault.step)) =>
    /\ thrown.isError
    /\ fault.status # NoStatus => thrown.status = fault.status
    /\ thrown.status = 500 => fault.status = NoStatus

RECURSIVE Concat(_)
Concat(ss) == IF ss = <<>> THEN <<>> ELSE Head(ss) \o Concat(Tail(ss))

\* Every request of the run was served from the same rules.
FixedInput == \A i \in 1..Len(calls) : calls[i].rules = input0

\* C27: for a fixed input and an integer limit of at least 1, the pages
\* returned for page 1, 2, ..., totalPages, one after the other, make up the
\* filtered, sorted and projected sequence: each of its records is in
\* exactly one page.
C27_PagesMakeUpTheSequence ==
  (pc = "allServed" /\ FixedInput /\ LimitOf(queryString) >= 1) =>
    LET totalPages == response.pagination.totalPages
    IN /\ Len(served) >= totalPages
       /\ Concat(SubSeq(served, 1, totalPages))
            = StagesInOrder(input0, queryString).projected

C27_Witness ==
  /\ pc = "allServed"
  /\ FixedInput
  /\ Len(calls) = 3
  /\ LimitOf(queryString) = 1
  /\ response.pagination.totalPages = 3
  /\ Len(served) = 3
  /\ served[1] # served[2]
  /\ Truthy(queryString, kSort)
  /\ Truthy(queryString, kFields)

\* The query without its fields parameter.
WithoutFields(q) == [k \in DOMAIN q \ {kFields} |-> q[k]]

\* C28: filtering and sorting are decided on the unprojected records: the
\* page returned with a fields value is the projection onto those fields of
\* the page the same query returns without fields, and total is the same in
\* both, also when the filter or sort keys are not among the fields.
C28_FieldsOnlyProjectsThePage ==
  (pc = "done" /\ Truthy(queryString, kFields)) =>
    LET without == StagesInOrder(input0, WithoutFields(queryString))
    IN /\ response.data
            = ProjectSeq(without.page, split(queryString[kFields].vals[1])).data
       /\ response.pagination.total = Len(without.projected)

C28_Witness ==
  /\ pc = "done"
  /\ Truthy(queryString, kFields)
  /\ Truthy(queryString, kSort)
  /\ FilterKeys(queryString) # {}
  /\ FilterKeys(queryString) \cap Requested(queryString) = {}
  /\ \A i \in 1..Len(SortFieldsOf(queryString)) :
       FieldNameOf(SortFieldsOf(queryString)[i]) \notin Requested(queryString)
  /\ Len(response.data) >= 1
  /\ Len(response.data) < Len(input0)
  /\ StagesInOrder(input0, queryString).sorted
       # StagesInOrder(input0, queryString).filtered
  /\ response.data # StagesInOrder(input0, WithoutFields(queryString)).page

\* getMetadata() is the call made last.
MetadataJustRead == calls # <<>> /\ calls[Len(calls)] = "getMetadata"

\* A step that is a call of getMetadata() leaves the object as it was.
MetadataReadsOnly ==
  (calls' # calls /\ calls'[Len(calls')] = "getMetadata")
    => UNCHANGED <<data, filteredData, queryString, input, aliased>>

\* C29: after any sequence of calls of filter, sort, limitFields and
\* paginate on one object, in any order and with repetition, the total of
\* getMetadata() is the length this.data had immediately before the most
\* recent paginate() call, or the length of the constructor's input when
\* paginate() has not been called, and getMetadata() changes no state.
C29_TotalIsLengthAtLastPaginate ==
  /\ [][MetadataReadsOnly]_vars
  /\ [](MetadataJustRead => response.pagination.total = pagedLength)

C29_Witness ==
  /\ calls = <<"filter", "paginate", "filter", "getMetadata">>
  /\ response.pagination.total = 2
  /\ Len(input0) = 3
  /\ Len(data) < 2

====
